---- MODULE Spec2Model ----
(***************************************************************************)
(* Model of CabinaMTBT.verifica_selettivita_protezioni (src/Maurizio.py),  *)
(* the MT/BT protection-coordination (selectivity) evaluator.              *)
(*                                                                         *)
(* Numbers.  The Python code computes with floats.  The model computes     *)
(* with exact rationals <<n, d>> (d > 0, lowest terms); float('inf') is    *)
(* <<1, 0>> and a raised ZeroDivisionError is the value <<0, 0>>.  Every   *)
(* arithmetic expression of the code is translated operation by operation  *)
(* (Mul, Div, Sub, Lt, ...), so comparisons are decided as the code        *)
(* decides them up to float rounding.                                      *)
(*                                                                         *)
(* Strings.  A Python string that is parsed by the code (the breaker       *)
(* description "630A - 25kA") is a sequence of one-character strings.  A   *)
(* string stored where a number may also be stored ("∞", "N/A") is the     *)
(* one-element tuple <<s>>.  The marks of the result strings are spelled   *)
(* CHECK (the green tick), WARN (the warning sign) and CROSS (the red      *)
(* cross), and a result string is the pair <<mark, text>>.                 *)
(***************************************************************************)
EXTENDS Integers, Sequences, FiniteSets, TLC

VARIABLES
    pc,          \* "idle" | "loop" | "done" | "raised": position of the call
    args,        \* the arguments of the call in progress
    env,         \* locals set before the loop (pickups, breaker rating, test currents)
    idx,         \* index of the next test current (1-based)
    loc,         \* locals of the last executed loop iteration
    risultati_selettivita,
    problemi_coordinamento,
    report,      \* the returned dictionary (<<>> before the return)
    self_V,      \* the instance fields <<V_mt, V_bt>> of the shared CabinaMTBT
    probe,       \* the last single evaluation of a trip-time curve (SpecCurves)
    pair,        \* two evaluations of one function at two currents (SpecPairs)
    frames,      \* the call frame of each UI session (SpecSessions)
    sizing,      \* the last run of the sizing steps before the evaluator (SpecSizing)
    ui           \* st.session_state and the page shown to one session (SpecUI)

vars == <<pc, args, env, idx, loc, risultati_selettivita,
          problemi_coordinamento, report, self_V, probe, pair, frames, sizing, ui>>

(***************************************************************************)
(* Bounds of the explored inputs.                                          *)
(***************************************************************************)
MaxImt == 2
MaxIbtK == 3
MaxIccK == 4
MaxCurveK == 1050
MaxPairK == 210
MaxSessions == 2
\* The sizing steps are explored at every LoadStride-th step of the load input.
LoadStride == 5
\* The UI sessions that share the cached CabinaMTBT instance.
Sessions == 1 .. MaxSessions

\* Nominal MV currents (A), non-positive values included.
ImtValues == -1 .. MaxImt
\* Nominal LV currents (A): multiples of 50 A, non-positive values included.
IbtValues == {50 * k : k \in -1 .. MaxIbtK}
\* Bolted LV fault currents (A): multiples of 2500 A.
IccValues == {2500 * k : k \in -1 .. MaxIccK}
\* Rated currents of the LV general breaker as written in prot_bt.
IintValues == {-1, 0, 63, 160, 400, 2000}
\* The explored arguments <<I_mt, I_bt, Icc_bt, rating>>: the grid of the values
\* above, and three cases off the grid:
\*  - the two MV stages tie at the last test point (Icc_bt / 50 = 37 * 3 * I_mt,
\*    so the 51 time is 10.8 / 36 = 0.3 s);
\*  - at the last test point only the 50 stage picks up (Icc_bt / 50 is below
\*    3 * I_mt and Icc_bt is below 1.45 times the breaker rating);
\*  - the example of a 630 kVA transformer (I_mt = 18 A, I_bt = 910 A) with a
\*    1000 A breaker and a bolted fault current of 25000 A.
InputCases ==
    (ImtValues \X IbtValues \X IccValues \X IintValues)
        \cup {<<1, 50, 5550, 160>>, <<20, 50, 2500, 2000>>, <<18, 910, 25000, 1000>>}

(***************************************************************************)
(* Exact rational arithmetic standing for the float arithmetic.            *)
(***************************************************************************)
Abs(x) == IF x < 0 THEN -x ELSE x

RECURSIVE GCD(_, _)
GCD(a, b) == IF b = 0 THEN a ELSE GCD(b, a % b)

Inf == <<1, 0>>
ZeroDivisionError == <<0, 0>>

Rat(n, d) ==
    LET g == GCD(Abs(n), Abs(d))
        s == IF d < 0 THEN -1 ELSE 1
    IN  <<(s * n) \div g, (s * d) \div g>>

Num(n) == <<n, 1>>
IsInf(a) == a = Inf
IsNum(a) == Len(a) = 2 /\ a[2] > 0

\* Comparison and subtraction go through the common denominator a[2] * b[2] / g
\* and multiplication cancels common factors first: the values are those of the
\* textbook formulas, with smaller intermediate products.
Lt(a, b) ==
    IF IsInf(a) THEN FALSE
    ELSE IF IsInf(b) THEN TRUE
    ELSE LET g == GCD(a[2], b[2])
         IN  a[1] * (b[2] \div g) < b[1] * (a[2] \div g)
Leq(a, b) == ~Lt(b, a)
Geq(a, b) == ~Lt(a, b)
Gt(a, b) == Lt(b, a)

Mul(a, b) ==
    LET g1 == GCD(Abs(a[1]), b[2])
        g2 == GCD(Abs(b[1]), a[2])
    IN  Rat((a[1] \div g1) * (b[1] \div g2), (a[2] \div g2) * (b[2] \div g1))
Sub(a, b) ==
    LET g == GCD(a[2], b[2])
    IN  Rat(a[1] * (b[2] \div g) - b[1] * (a[2] \div g), (a[2] \div g) * b[2])
Div(a, b) ==
    IF b[1] = 0 THEN ZeroDivisionError
    ELSE IF b[1] < 0 THEN Mul(a, <<-b[2], -b[1]>>)
    ELSE Mul(a, <<b[2], b[1]>>)
\* Python's min(a, b): the first argument unless the second is smaller.
Min2(a, b) == IF Lt(b, a) THEN b ELSE a

\* A string stored in a field that may also hold a number.
StrVal(s) == <<s>>


(***************************************************************************)
(* Strings: formatting an integer, str.split("A")[0] and float().          *)
(***************************************************************************)
Digits == <<"0", "1", "2", "3", "4", "5", "6", "7", "8", "9">>
DigitVal(c) == (CHOOSE i \in 1 .. 10 : Digits[i] = c) - 1

RECURSIVE StrNat(_)
StrNat(n) == IF n < 10 THEN <<Digits[n + 1]>>
             ELSE StrNat(n \div 10) \o <<Digits[(n % 10) + 1]>>
\* f"{n}" of an integer n.
StrInt(n) == IF n < 0 THEN <<"-">> \o StrNat(-n) ELSE StrNat(n)

\* f"{I_gen_bt}A - {pdi}kA", the "interruttore_generale" entry of prot_bt.
interruttore_generale(I_gen_bt, pdi) ==
    StrInt(I_gen_bt) \o <<"A", " ", "-", " ">> \o StrInt(pdi) \o <<"k", "A">>

\* s.split("A")[0]: the part of s before its first "A" (all of s without one).
SplitA0(s) ==
    LET hits == {i \in 1 .. Len(s) : s[i] = "A"}
    IN  IF hits = {} THEN s
        ELSE SubSeq(s, 1, (CHOOSE i \in hits : \A j \in hits : i <= j) - 1)

RECURSIVE ParseNat(_)
ParseNat(s) == IF s = <<>> THEN 0
               ELSE ParseNat(SubSeq(s, 1, Len(s) - 1)) * 10 + DigitVal(s[Len(s)])
\* float(s) of a decimal integer literal with an optional sign.
ParseFloat(s) == IF s[1] = "-" THEN Num(-ParseNat(Tail(s))) ELSE Num(ParseNat(s))

\* The prot_bt dictionary of a breaker of the given rating (pdi 25 kA).
prot_bt_of(I_gen_bt) == [interruttore_generale |-> interruttore_generale(I_gen_bt, 25)]

(***************************************************************************)
(* The instance fields (CabinaMTBT.__init__).                              *)
(***************************************************************************)
V_mt == 20000
V_bt == 400

(***************************************************************************)
(* The three trip-time curves (closures of the evaluator; the closure      *)
(* variables I_rele_51_mt and I_rele_50_mt are passed as parameters).      *)
(***************************************************************************)
\* Faulty variant of TMS: 0.4.
TMS_04 == Rat(4, 10)
\* TMS of the 51 stage, and its very-inverse constant 13.5.
TMS == Rat(8, 10)
K_VI == Rat(135, 10)
One == Num(1)

\* Faulty variant of tempo_rele_51_mt: a definite-time stage (10.8 s above pickup).
tempo_rele_51_mt_definite(corrente, I_rele_51_mt) ==
    IF Leq(corrente, I_rele_51_mt) THEN Inf ELSE Mul(TMS, K_VI)

tempo_rele_51_mt(corrente, I_rele_51_mt) ==
    IF Lt(corrente, I_rele_51_mt) THEN Inf
    ELSE LET rapporto == Div(corrente, I_rele_51_mt)
         IN  IF rapporto = ZeroDivisionError THEN ZeroDivisionError
             ELSE IF Leq(rapporto, One) THEN Inf
             ELSE Mul(TMS, Div(K_VI, Sub(rapporto, One)))

\* Faulty variant of I_rele_51_mt_of: the pickup at 150 % of I_mt.
I_rele_51_mt_150(I_mt) == Mul(I_mt, Rat(15, 10))
\* Faulty variant of I_rele_50_mt_of: the pickup at 130 % of the reflected fault current.
I_rele_50_mt_130(Icc_bt, V) == Mul(Mul(Icc_bt, Rat(13, 10)), Div(Num(V[2]), Num(V[1])))

\* I_rele_51_mt = I_mt * 3.0
I_rele_51_mt_of(I_mt) == Mul(I_mt, Num(3))
\* I_rele_50_mt = Icc_bt * 0.8 * (self.V_bt / self.V_mt)
I_rele_50_mt_of(Icc_bt, V) == Mul(Mul(Icc_bt, Rat(8, 10)), Div(Num(V[2]), Num(V[1])))

\* Faulty variant of Ritardo50: a delay of 0.5 s.
Ritardo50_500ms == Rat(5, 10)
\* Fixed delay of the 50 stage: 0.3 s.
Ritardo50 == Rat(3, 10)

\* Faulty variant of tempo_rele_50_mt: the pickup itself excluded.
tempo_rele_50_mt_strict(corrente, I_rele_50_mt) ==
    IF Gt(corrente, I_rele_50_mt) THEN Ritardo50 ELSE Inf

\* Faulty variant of tempo_rele_50_mt: the delay shrinks with the current.
tempo_rele_50_mt_inverse(corrente, I_rele_50_mt) ==
    IF Geq(corrente, I_rele_50_mt) THEN Mul(Ritardo50, Div(I_rele_50_mt, corrente)) ELSE Inf

tempo_rele_50_mt(corrente, I_rele_50_mt) ==
    IF Geq(corrente, I_rele_50_mt) THEN Ritardo50 ELSE Inf

\* Faulty variant of K_term_default: thermal pickup at 1.3 times the rating.
K_term_13 == Rat(13, 10)
\* Faulty variant of K_mag_default: magnetic pickup at 100 times the rating.
K_mag_100 == Num(100)
\* Default multipliers K_mag = 10 and K_term = 1.45.
K_mag_default == Num(10)
K_term_default == Rat(145, 100)

\* Faulty variant of tempo_interruttore_bt: the 0.5 s and 10 s rows of the table swapped.
tempo_interruttore_bt_swapped(corrente, I_int_bt, K_mag, K_term) ==
    LET I_mag_bt == Mul(I_int_bt, K_mag)
        I_term_bt == Mul(I_int_bt, K_term)
    IN  IF Geq(corrente, I_mag_bt) THEN Rat(1, 100)
        ELSE IF Geq(corrente, I_term_bt) THEN
            LET rapporto == Div(corrente, I_int_bt)
            IN  IF rapporto = ZeroDivisionError THEN ZeroDivisionError
                ELSE IF Geq(rapporto, Num(5)) THEN Num(10)
                ELSE IF Geq(rapporto, Num(2)) THEN Rat(5, 10)
                ELSE Min2(Div(Num(3600), Mul(rapporto, rapporto)), Num(3600))
        ELSE Inf

tempo_interruttore_bt(corrente, I_int_bt, K_mag, K_term) ==
    LET I_mag_bt == Mul(I_int_bt, K_mag)
        I_term_bt == Mul(I_int_bt, K_term)
    IN  IF Geq(corrente, I_mag_bt) THEN Rat(1, 100)
        ELSE IF Geq(corrente, I_term_bt) THEN
            LET rapporto == Div(corrente, I_int_bt)
            IN  IF rapporto = ZeroDivisionError THEN ZeroDivisionError
                ELSE IF Geq(rapporto, Num(50)) THEN Rat(2, 100)
                ELSE IF Geq(rapporto, Num(20)) THEN Rat(5, 100)
                ELSE IF Geq(rapporto, Num(10)) THEN Rat(1, 10)
                ELSE IF Geq(rapporto, Num(5)) THEN Rat(5, 10)
                ELSE IF Geq(rapporto, Num(2)) THEN Num(10)
                ELSE Min2(Div(Num(3600), Mul(rapporto, rapporto)), Num(3600))
        ELSE Inf


(***************************************************************************)
(* The body of the loop over correnti_test.                                *)
(***************************************************************************)
\* Faulty variant of correnti_test: the currents in increasing order of multiplier,
\* the 60 % point before the 30 % point.
correnti_test_reordered(I_bt, Icc_bt) ==
    << Mul(I_bt, Rat(12, 10)), Mul(I_bt, Num(2)), Mul(I_bt, Num(5)), Mul(I_bt, Num(15)),
       Mul(Icc_bt, Rat(6, 10)), Mul(Icc_bt, Rat(3, 10)), Icc_bt >>

\* The seven test currents, in the order of the list correnti_test.
correnti_test(I_bt, Icc_bt) ==
    << Mul(I_bt, Rat(12, 10)), Mul(I_bt, Num(2)), Mul(I_bt, Num(5)), Mul(I_bt, Num(15)),
       Mul(Icc_bt, Rat(3, 10)), Mul(Icc_bt, Rat(6, 10)), Icc_bt >>

\* Faulty variant of protezione_mt_attiva: the 51 stage tested first.
protezione_mt_attiva_51_first(t_mt, t_mt_51, t_mt_50) ==
    IF t_mt = t_mt_51 /\ t_mt_51 # Inf THEN "51 (temporizzato)"
    ELSE IF t_mt = t_mt_50 /\ t_mt_50 # Inf THEN "50 (istantaneo)"
    ELSE "Nessuna"

\* t_mt = min(t_mt_51, t_mt_50)
tempo_mt(t_mt_51, t_mt_50) == Min2(t_mt_51, t_mt_50)

protezione_mt_attiva(t_mt, t_mt_51, t_mt_50) ==
    IF t_mt = t_mt_50 /\ t_mt_50 # Inf THEN "50 (istantaneo)"
    ELSE IF t_mt = t_mt_51 /\ t_mt_51 # Inf THEN "51 (temporizzato)"
    ELSE "Nessuna"

\* Faulty variant of margine_richiesto: the band of 10 * I_bt tested first.
margine_richiesto_swapped(I_test, I_bt, Icc_bt) ==
    IF Geq(I_test, Mul(I_bt, Num(10))) THEN Rat(25, 100)
    ELSE IF Geq(I_test, Mul(Icc_bt, Rat(5, 10))) THEN Rat(2, 10)
    ELSE Rat(3, 10)

margine_richiesto(I_test, I_bt, Icc_bt) ==
    IF Geq(I_test, Mul(Icc_bt, Rat(5, 10))) THEN Rat(2, 10)
    ELSE IF Geq(I_test, Mul(I_bt, Num(10))) THEN Rat(25, 100)
    ELSE Rat(3, 10)

\* Faulty variant of classifica: the margin taken as t_bt - t_mt.
classifica_swapped(t_bt, t_mt, richiesto) ==
    IF t_bt # Inf /\ t_mt # Inf THEN
        LET margine_effettivo == Sub(t_bt, t_mt)
        IN  IF Geq(margine_effettivo, richiesto) THEN <<(<<"CHECK", "OK">>), margine_effettivo>>
            ELSE IF Geq(margine_effettivo, Mul(richiesto, Rat(6, 10)))
                 THEN <<(<<"WARN", "LIMITE">>), margine_effettivo>>
            ELSE <<(<<"CROSS", "NO">>), margine_effettivo>>
    ELSE IF t_bt # Inf /\ t_mt = Inf THEN <<(<<"CHECK", "PERFETTO">>), StrVal("inf")>>
    ELSE IF t_bt = Inf /\ t_mt # Inf THEN <<(<<"WARN", "SOLO MT">>), StrVal("N/A")>>
    ELSE <<(<<"CHECK", "OK">>), StrVal("N/A")>>

\* Faulty variant of classifica: the labels of the two one-sided cases exchanged.
classifica_one_sided(t_bt, t_mt, richiesto) ==
    IF t_bt # Inf /\ t_mt # Inf THEN
        LET margine_effettivo == Sub(t_mt, t_bt)
        IN  IF Geq(margine_effettivo, richiesto) THEN <<(<<"CHECK", "OK">>), margine_effettivo>>
            ELSE IF Geq(margine_effettivo, Mul(richiesto, Rat(6, 10)))
                 THEN <<(<<"WARN", "LIMITE">>), margine_effettivo>>
            ELSE <<(<<"CROSS", "NO">>), margine_effettivo>>
    ELSE IF t_bt # Inf /\ t_mt = Inf THEN <<(<<"WARN", "SOLO MT">>), StrVal("N/A")>>
    ELSE IF t_bt = Inf /\ t_mt # Inf THEN <<(<<"CHECK", "PERFETTO">>), StrVal("inf")>>
    ELSE <<(<<"CHECK", "OK">>), StrVal("N/A")>>

\* Faulty variant of classifica: a label of its own for the last branch.
classifica_safe_label(t_bt, t_mt, richiesto) ==
    IF t_bt # Inf /\ t_mt # Inf THEN
        LET margine_effettivo == Sub(t_mt, t_bt)
        IN  IF Geq(margine_effettivo, richiesto) THEN <<(<<"CHECK", "OK">>), margine_effettivo>>
            ELSE IF Geq(margine_effettivo, Mul(richiesto, Rat(6, 10)))
                 THEN <<(<<"WARN", "LIMITE">>), margine_effettivo>>
            ELSE <<(<<"CROSS", "NO">>), margine_effettivo>>
    ELSE IF t_bt # Inf /\ t_mt = Inf THEN <<(<<"CHECK", "PERFETTO">>), StrVal("inf")>>
    ELSE IF t_bt = Inf /\ t_mt # Inf THEN <<(<<"WARN", "SOLO MT">>), StrVal("N/A")>>
    ELSE <<(<<"CHECK", "SICURO">>), StrVal("N/A")>>

\* The if/elif chain that sets selettivita and margine_effettivo:
\* <<selettivita, margine_effettivo>>.
classifica(t_bt, t_mt, richiesto) ==
    IF t_bt # Inf /\ t_mt # Inf THEN
        LET margine_effettivo == Sub(t_mt, t_bt)
        IN  IF Geq(margine_effettivo, richiesto) THEN <<(<<"CHECK", "OK">>), margine_effettivo>>
            ELSE IF Geq(margine_effettivo, Mul(richiesto, Rat(6, 10)))
                 THEN <<(<<"WARN", "LIMITE">>), margine_effettivo>>
            ELSE <<(<<"CROSS", "NO">>), margine_effettivo>>
    ELSE IF t_bt # Inf /\ t_mt = Inf THEN <<(<<"CHECK", "PERFETTO">>), StrVal("inf")>>
    ELSE IF t_bt = Inf /\ t_mt # Inf THEN <<(<<"WARN", "SOLO MT">>), StrVal("N/A")>>
    ELSE <<(<<"CHECK", "OK">>), StrVal("N/A")>>

\* f"{x:.0f}": x rounded to an integer, halves to the even neighbour.
Round0(x) ==
    LET fl == x[1] \div x[2]
        twice == 2 * (x[1] - fl * x[2])
    IN  IF twice < x[2] THEN fl
        ELSE IF twice > x[2] THEN fl + 1
        ELSE IF fl % 2 = 0 THEN fl ELSE fl + 1

\* Faulty variant of problema: the two times exchanged.
problema_swapped_times(I_test, t_bt, t_mt, margine_effettivo, richiesto, prot) ==
    [ corrente_kA   |-> Div(I_test, Num(1000)),
      tempo_bt_ms   |-> Mul(t_mt, Num(1000)),
      tempo_mt_ms   |-> Mul(t_bt, Num(1000)),
      margine_ms    |-> Mul(margine_effettivo, Num(1000)),
      richiesto_ms  |-> Mul(richiesto, Num(1000)),
      protezione_mt |-> prot,
      problema      |-> << "Margine", Round0(Mul(margine_effettivo, Num(1000))), "ms <",
                           Round0(Mul(richiesto, Num(1000))), "ms" >> ]

\* The diagnostic appended to problemi_coordinamento for a "NO" point.
problema(I_test, t_bt, t_mt, margine_effettivo, richiesto, prot) ==
    [ corrente_kA   |-> Div(I_test, Num(1000)),
      tempo_bt_ms   |-> Mul(t_bt, Num(1000)),
      tempo_mt_ms   |-> Mul(t_mt, Num(1000)),
      margine_ms    |-> Mul(margine_effettivo, Num(1000)),
      richiesto_ms  |-> Mul(richiesto, Num(1000)),
      protezione_mt |-> prot,
      problema      |-> << "Margine", Round0(Mul(margine_effettivo, Num(1000))), "ms <",
                           Round0(Mul(richiesto, Num(1000))), "ms" >> ]

\* The dictionary appended to risultati_selettivita.
risultato(I_test, I_test_mt, t_bt, t_mt, prot, selettivita, margine_effettivo, richiesto) ==
    [ corrente_test_A     |-> I_test,
      corrente_test_kA    |-> Div(I_test, Num(1000)),
      corrente_mt_A       |-> I_test_mt,
      tempo_bt_s          |-> IF t_bt # Inf THEN t_bt ELSE StrVal("inf"),
      tempo_mt_s          |-> IF t_mt # Inf THEN t_mt ELSE StrVal("inf"),
      protezione_mt       |-> prot,
      selettivita         |-> selettivita,
      margine_s           |-> margine_effettivo,
      margine_richiesto_s |-> IF t_bt # Inf /\ t_mt # Inf THEN richiesto ELSE StrVal("N/A") ]


(***************************************************************************)
(* The aggregate part after the loop.                                      *)
(***************************************************************************)
\* Faulty variant of n_ok_of: only the results that read exactly "OK" are counted.
n_ok_of_exact(risultati) ==
    Cardinality({i \in 1 .. Len(risultati) : risultati[i].selettivita = <<"CHECK", "OK">>})

\* n_ok = sum(1 for r in risultati_selettivita if "✅" in r["selettivita"])
n_ok_of(risultati) ==
    Cardinality({i \in 1 .. Len(risultati) : risultati[i].selettivita[1] = "CHECK"})

\* percentuale_successo = (n_ok / len(risultati_selettivita)) * 100
percentuale_successo(n_ok, n) == Mul(Div(Num(n_ok), Num(n)), Num(100))

\* Faulty variant of valutazione: the top rating from 90 % instead of 85 %.
valutazione_90(percentuale) ==
    IF Geq(percentuale, Num(90)) THEN <<"CHECK", "SELETTIVITA' ECCELLENTE">>
    ELSE IF Geq(percentuale, Num(70)) THEN <<"CHECK", "SELETTIVITA' BUONA">>
    ELSE IF Geq(percentuale, Num(50)) THEN <<"WARN", "SELETTIVITA' ACCETTABILE">>
    ELSE <<"CROSS", "SELETTIVITA' CRITICA">>

valutazione(percentuale) ==
    IF Geq(percentuale, Num(85)) THEN <<"CHECK", "SELETTIVITA' ECCELLENTE">>
    ELSE IF Geq(percentuale, Num(70)) THEN <<"CHECK", "SELETTIVITA' BUONA">>
    ELSE IF Geq(percentuale, Num(50)) THEN <<"WARN", "SELETTIVITA' ACCETTABILE">>
    ELSE <<"CROSS", "SELETTIVITA' CRITICA">>

raccomandazioni(problemi, Icc_bt) ==
    LET soglia == Div(Icc_bt, Num(2000))
        alta == {i \in 1 .. Len(problemi) : Gt(problemi[i].corrente_kA, soglia)}
        bassa == {i \in 1 .. Len(problemi) : Leq(problemi[i].corrente_kA, soglia)}
        testa ==
            IF Len(problemi) = 0 THEN
                << "Selettivita' conforme CEI 0-16",
                   "Coordinamento protezioni ottimale",
                   "Pronto per messa in servizio" >>
            ELSE
                << "OTTIMIZZAZIONI SUGGERITE:" >>
                \o (IF alta # {} THEN << "Aumentare ritardo 50 MT (attualmente 300ms)",
                                         "Verificare curva magnetica interruttore BT" >>
                    ELSE << >>)
                \o (IF bassa # {} THEN << "Aumentare TMS rele' 51 MT (attualmente 0.4)",
                                          "Considerare curva Extremely Inverse per 51 MT" >>
                    ELSE << >>)
    IN  testa \o << "VERIFICHE OBBLIGATORIE:",
                    "Test iniezione primaria rele' (CEI 0-16)",
                    "Misura tempi intervento reali",
                    "Verifica coordinamento con protezioni upstream",
                    "Controllo derive parametri (ogni 2 anni)" >>

\* The returned dictionary.
rapporto_finale(a, e, V, risultati, problemi) ==
    LET n_ok == n_ok_of(risultati)
        n_problemi == Len(problemi)
        perc == percentuale_successo(n_ok, Len(risultati))
    IN  [ tarature_mt |->
            [ rele_51_A |-> e.I_rele_51_mt,
              rele_50_A |-> e.I_rele_50_mt,
              TMS_51 |-> Rat(4, 10),
              ritardo_50_ms |-> Num(300),
              curva_51 |-> "Very Inverse IEC" ],
          tarature_bt |->
            [ interruttore_In_A |-> e.I_int_bt,
              soglia_magnetica_A |-> Mul(e.I_int_bt, Num(10)),
              soglia_termica_A |-> Mul(e.I_int_bt, Rat(145, 100)),
              tempo_magnetico_ms |-> Num(10) ],
          risultati_selettivita |-> risultati,
          problemi_coordinamento |-> problemi,
          n_punti_testati |-> Len(e.correnti_test),
          n_punti_ok |-> n_ok,
          n_problemi |-> n_problemi,
          percentuale_successo |-> perc,
          valutazione_complessiva |-> valutazione(perc),
          raccomandazioni |-> raccomandazioni(problemi, a.Icc_bt),
          backup_mt_disponibile |->
              \E i \in 1 .. Len(risultati) :
                  /\ Gt(risultati[i].corrente_test_kA, Num(5))
                  /\ risultati[i].tempo_mt_s # StrVal("inf"),
          coordinamento_generale |->
              IF Geq(perc, Num(70)) THEN "Conforme CEI 0-16" ELSE "Da ottimizzare",
          debug_info |->
            [ rapporto_trasformazione |-> Div(Num(V[2]), Num(V[1])),
              I_mt |-> a.I_mt, I_bt |-> a.I_bt,
              Icc_bt_kA |-> Div(a.Icc_bt, Num(1000)) ] ]

(***************************************************************************)
(* The state machine: calls, one at a time, on the shared instance.         *)
(***************************************************************************)
NoArgs == [I_mt |-> Num(0), I_bt |-> Num(0), Icc_bt |-> Num(0),
           prot_bt |-> [interruttore_generale |-> <<>>]]
NoEnv == [I_rele_51_mt |-> Num(0), I_rele_50_mt |-> Num(0), I_int_bt |-> Num(0),
          correnti_test |-> <<>>]
NoLoc == [I_test |-> Num(0), I_test_mt |-> Num(0), t_bt |-> Inf, t_mt_51 |-> Inf,
          t_mt_50 |-> Inf, t_mt |-> Inf, margine_richiesto |-> Num(0)]
NoReport == <<>>
NoProbe == [fn |-> "none", corrente |-> Num(0), param |-> Num(0), t |-> Inf]
NoPair == [fn |-> "none", param |-> <<>>, c1 |-> Num(0), t1 |-> Inf, c2 |-> Num(0), t2 |-> Inf]
\* No sizing step has run yet.
NoSizing == [fn |-> "none"]
\* A browser session whose script has not run yet: st.session_state is empty and no
\* widget is on the page.
NoUi == [session_state |-> <<>>, buttons |-> {}, page |-> "none",
         event |-> "none", before |-> <<>>]
\* The frame of a session that is not inside a call.
NoFrame == [pc |-> "idle", input |-> <<>>, prot_bt |-> <<>>, args |-> NoArgs, env |-> NoEnv, idx |-> 1,
            risultati_selettivita |-> <<>>, problemi_coordinamento |-> <<>>,
            report |-> NoReport]

Init ==
    /\ pc = "idle"
    /\ args = NoArgs
    /\ env = NoEnv
    /\ idx = 1
    /\ loc = NoLoc
    /\ risultati_selettivita = <<>>
    /\ problemi_coordinamento = <<>>
    /\ report = NoReport
    /\ self_V = <<V_mt, V_bt>>
    /\ probe = NoProbe
    /\ pair = NoPair
    /\ frames = [s \in Sessions |-> NoFrame]
    /\ sizing = NoSizing
    /\ ui = NoUi

\* The call and the statements before the loop.
Call(I_mt, I_bt, Icc_bt, prot_bt) ==
    /\ pc = "idle"
    /\ args' = [I_mt |-> I_mt, I_bt |-> I_bt, Icc_bt |-> Icc_bt, prot_bt |-> prot_bt]
    /\ env' = [ I_rele_51_mt |-> I_rele_51_mt_of(I_mt),
                I_rele_50_mt |-> I_rele_50_mt_of(Icc_bt, self_V),
                I_int_bt |-> ParseFloat(SplitA0(prot_bt.interruttore_generale)),
                correnti_test |-> correnti_test(I_bt, Icc_bt) ]
    /\ idx' = 1
    /\ loc' = NoLoc
    /\ risultati_selettivita' = <<>>
    /\ problemi_coordinamento' = <<>>
    /\ report' = NoReport
    /\ pc' = "loop"
    /\ UNCHANGED <<self_V, probe, pair, frames, sizing, ui>>

\* Faulty variant of TestPoint: the MV stages are evaluated at the LV-side current.
TestPoint_unscaled ==
    /\ pc = "loop"
    /\ idx <= Len(env.correnti_test)
    /\ LET I_test == env.correnti_test[idx]
           t_bt == tempo_interruttore_bt(I_test, env.I_int_bt, K_mag_default, K_term_default)
           I_test_mt == I_test
           t_mt_51 == tempo_rele_51_mt(I_test_mt, env.I_rele_51_mt)
           t_mt_50 == tempo_rele_50_mt(I_test_mt, env.I_rele_50_mt)
           t_mt == tempo_mt(t_mt_51, t_mt_50)
           prot == protezione_mt_attiva(t_mt, t_mt_51, t_mt_50)
           richiesto == margine_richiesto(I_test, args.I_bt, args.Icc_bt)
           cl == classifica(t_bt, t_mt, richiesto)
       IN  IF t_bt = ZeroDivisionError \/ t_mt_51 = ZeroDivisionError
           THEN /\ pc' = "raised"
                /\ UNCHANGED <<idx, loc, risultati_selettivita, problemi_coordinamento>>
           ELSE /\ pc' = "loop"
                /\ idx' = idx + 1
                /\ loc' = [I_test |-> I_test, I_test_mt |-> I_test_mt, t_bt |-> t_bt,
                           t_mt_51 |-> t_mt_51, t_mt_50 |-> t_mt_50, t_mt |-> t_mt,
                           margine_richiesto |-> richiesto]
                /\ problemi_coordinamento' =
                       IF cl[1] = <<"CROSS", "NO">>
                       THEN Append(problemi_coordinamento,
                                   problema(I_test, t_bt, t_mt, cl[2], richiesto, prot))
                       ELSE problemi_coordinamento
                /\ risultati_selettivita' =
                       Append(risultati_selettivita,
                              risultato(I_test, I_test_mt, t_bt, t_mt, prot, cl[1], cl[2], richiesto))
    /\ UNCHANGED <<args, env, report, self_V, probe, pair, frames, sizing, ui>>

\* One iteration of "for I_test in correnti_test".
TestPoint ==
    /\ pc = "loop"
    /\ idx <= Len(env.correnti_test)
    /\ LET I_test == env.correnti_test[idx]
           t_bt == tempo_interruttore_bt(I_test, env.I_int_bt, K_mag_default, K_term_default)
           I_test_mt == Mul(I_test, Div(Num(self_V[2]), Num(self_V[1])))
           t_mt_51 == tempo_rele_51_mt(I_test_mt, env.I_rele_51_mt)
           t_mt_50 == tempo_rele_50_mt(I_test_mt, env.I_rele_50_mt)
           t_mt == tempo_mt(t_mt_51, t_mt_50)
           prot == protezione_mt_attiva(t_mt, t_mt_51, t_mt_50)
           richiesto == margine_richiesto(I_test, args.I_bt, args.Icc_bt)
           cl == classifica(t_bt, t_mt, richiesto)
       IN  IF t_bt = ZeroDivisionError \/ t_mt_51 = ZeroDivisionError
           THEN /\ pc' = "raised"
                /\ UNCHANGED <<idx, loc, risultati_selettivita, problemi_coordinamento>>
           ELSE /\ pc' = "loop"
                /\ idx' = idx + 1
                /\ loc' = [I_test |-> I_test, I_test_mt |-> I_test_mt, t_bt |-> t_bt,
                           t_mt_51 |-> t_mt_51, t_mt_50 |-> t_mt_50, t_mt |-> t_mt,
                           margine_richiesto |-> richiesto]
                /\ problemi_coordinamento' =
                       IF cl[1] = <<"CROSS", "NO">>
                       THEN Append(problemi_coordinamento,
                                   problema(I_test, t_bt, t_mt, cl[2], richiesto, prot))
                       ELSE problemi_coordinamento
                /\ risultati_selettivita' =
                       Append(risultati_selettivita,
                              risultato(I_test, I_test_mt, t_bt, t_mt, prot, cl[1], cl[2], richiesto))
    /\ UNCHANGED <<args, env, report, self_V, probe, pair, frames, sizing, ui>>

\* The statements after the loop, up to the return.
Return ==
    /\ pc = "loop"
    /\ idx > Len(env.correnti_test)
    /\ report' = rapporto_finale(args, env, self_V, risultati_selettivita, problemi_coordinamento)
    /\ pc' = "done"
    /\ UNCHANGED <<args, env, idx, loc, risultati_selettivita, problemi_coordinamento,
                   self_V, probe, pair, frames, sizing, ui>>

\* The caller has taken the report (or the exception): the frame of the call is
\* gone and the shared instance is ready for the next call.
Finish ==
    /\ pc \in {"done", "raised"}
    /\ pc' = "idle"
    /\ args' = NoArgs
    /\ env' = NoEnv
    /\ idx' = 1
    /\ loc' = NoLoc
    /\ risultati_selettivita' = <<>>
    /\ problemi_coordinamento' = <<>>
    /\ report' = NoReport
    /\ UNCHANGED <<self_V, probe, pair, frames, sizing, ui>>

Next ==
    \/ \E c \in InputCases : Call(Num(c[1]), Num(c[2]), Num(c[3]), prot_bt_of(c[4]))
    \/ TestPoint
    \/ Return
    \/ Finish

Spec == Init /\ [][Next]_vars

(***************************************************************************)
(* The trip-time curves on their own: each action evaluates one curve at   *)
(* one current, for settings as the evaluator derives them.  Currents are  *)
(* k/100 A for k in 0 .. MaxCurveK.  One evaluation is made per behaviour. *)
(***************************************************************************)
CurveCurrents == {Rat(k, 100) : k \in 0 .. MaxCurveK}
\* Nominal MV currents (A), bolted LV fault currents (A) and breaker ratings (A)
\* whose pickups lie inside CurveCurrents.
CurveImt == {1, 2}
CurveIcc == {100, 250}
CurveIint == {1, 2}

Eval51(I_mt, corrente) ==
    /\ probe = NoProbe
    /\ probe' = [fn |-> "tempo_rele_51_mt", corrente |-> corrente, param |-> I_mt,
                 t |-> tempo_rele_51_mt(corrente, I_rele_51_mt_of(I_mt))]
    /\ UNCHANGED <<pc, args, env, idx, loc, risultati_selettivita,
                   problemi_coordinamento, report, self_V, pair, frames, sizing, ui>>

Eval50(Icc_bt, corrente) ==
    /\ probe = NoProbe
    /\ probe' = [fn |-> "tempo_rele_50_mt", corrente |-> corrente, param |-> Icc_bt,
                 t |-> tempo_rele_50_mt(corrente, I_rele_50_mt_of(Icc_bt, self_V))]
    /\ UNCHANGED <<pc, args, env, idx, loc, risultati_selettivita,
                   problemi_coordinamento, report, self_V, pair, frames, sizing, ui>>

EvalBt(I_int_bt, corrente) ==
    /\ probe = NoProbe
    /\ probe' = [fn |-> "tempo_interruttore_bt", corrente |-> corrente, param |-> I_int_bt,
                 t |-> tempo_interruttore_bt(corrente, I_int_bt, K_mag_default, K_term_default)]
    /\ UNCHANGED <<pc, args, env, idx, loc, risultati_selettivita,
                   problemi_coordinamento, report, self_V, pair, frames, sizing, ui>>

NextCurves ==
    \/ \E i \in CurveImt, c \in CurveCurrents : Eval51(Num(i), c)
    \/ \E i \in CurveIcc, c \in CurveCurrents : Eval50(Num(i), c)
    \/ \E i \in CurveIint, c \in CurveCurrents : EvalBt(Num(i), c)

SpecCurves == Init /\ [][NextCurves]_vars

(***************************************************************************)
(* Two evaluations of one function inside one call, at currents            *)
(* c1 <= c2 taken from k/20 A for k in 0 .. MaxPairK, for settings as the  *)
(* evaluator derives them.  One pair is evaluated per behaviour.           *)
(***************************************************************************)
PairCurrent(k) == Rat(k, 20)
\* Nominal MV currents, bolted LV fault currents and breaker ratings (A) whose
\* pickups lie inside the pair currents.
PairImt == {1, 2}
PairIcc == {100}
PairIint == {1}
\* <<I_bt, Icc_bt>> (A) with 10 * I_bt above, below and equal to 0.5 * Icc_bt.
MarginCases == { <<Rat(1, 2), Num(4)>>, <<Rat(1, 5), Num(10)>>, <<Rat(1, 2), Num(10)>> }

Pair51(I_mt, c1, c2) ==
    /\ pair = NoPair
    /\ pair' = [fn |-> "tempo_rele_51_mt", param |-> I_mt,
                c1 |-> c1, t1 |-> tempo_rele_51_mt(c1, I_rele_51_mt_of(I_mt)),
                c2 |-> c2, t2 |-> tempo_rele_51_mt(c2, I_rele_51_mt_of(I_mt))]
    /\ UNCHANGED <<pc, args, env, idx, loc, risultati_selettivita,
                   problemi_coordinamento, report, self_V, probe, frames, sizing, ui>>

Pair50(Icc_bt, c1, c2) ==
    /\ pair = NoPair
    /\ pair' = [fn |-> "tempo_rele_50_mt", param |-> Icc_bt,
                c1 |-> c1, t1 |-> tempo_rele_50_mt(c1, I_rele_50_mt_of(Icc_bt, self_V)),
                c2 |-> c2, t2 |-> tempo_rele_50_mt(c2, I_rele_50_mt_of(Icc_bt, self_V))]
    /\ UNCHANGED <<pc, args, env, idx, loc, risultati_selettivita,
                   problemi_coordinamento, report, self_V, probe, frames, sizing, ui>>

PairBt(I_int_bt, c1, c2) ==
    /\ pair = NoPair
    /\ pair' = [fn |-> "tempo_interruttore_bt", param |-> I_int_bt,
                c1 |-> c1,
                t1 |-> tempo_interruttore_bt(c1, I_int_bt, K_mag_default, K_term_default),
                c2 |-> c2,
                t2 |-> tempo_interruttore_bt(c2, I_int_bt, K_mag_default, K_term_default)]
    /\ UNCHANGED <<pc, args, env, idx, loc, risultati_selettivita,
                   problemi_coordinamento, report, self_V, probe, frames, sizing, ui>>

PairMargine(I_bt, Icc_bt, c1, c2) ==
    /\ pair = NoPair
    /\ pair' = [fn |-> "margine_richiesto", param |-> <<I_bt, Icc_bt>>,
                c1 |-> c1, t1 |-> margine_richiesto(c1, I_bt, Icc_bt),
                c2 |-> c2, t2 |-> margine_richiesto(c2, I_bt, Icc_bt)]
    /\ UNCHANGED <<pc, args, env, idx, loc, risultati_selettivita,
                   problemi_coordinamento, report, self_V, probe, frames, sizing, ui>>

NextPairs ==
    \/ /\ pair = NoPair
       /\ \E k1 \in 0 .. MaxPairK : \E k2 \in k1 .. MaxPairK : \E i \in PairImt :
              Pair51(Num(i), PairCurrent(k1), PairCurrent(k2))
    \/ /\ pair = NoPair
       /\ \E k1 \in 0 .. MaxPairK : \E k2 \in k1 .. MaxPairK : \E i \in PairIcc :
              Pair50(Num(i), PairCurrent(k1), PairCurrent(k2))
    \/ /\ pair = NoPair
       /\ \E k1 \in 0 .. MaxPairK : \E k2 \in k1 .. MaxPairK : \E i \in PairIint :
              PairBt(Num(i), PairCurrent(k1), PairCurrent(k2))
    \/ /\ pair = NoPair
       /\ \E k1 \in 0 .. MaxPairK : \E k2 \in k1 .. MaxPairK : \E m \in MarginCases :
              PairMargine(m[1], m[2], PairCurrent(k1), PairCurrent(k2))

SpecPairs == Init /\ [][NextPairs]_vars

(***************************************************************************)
(* Calls from several UI sessions on the one instance that init_calculator *)
(* caches: each session has the frame of its own call (arguments, locals   *)
(* and the closures' variables); self_V is shared.  The sessions take      *)
(* their steps in any interleaving.                                        *)
(***************************************************************************)
\* The arguments <<I_mt, I_bt, Icc_bt, rating>> the sessions call with; the third
\* raises ZeroDivisionError.
SessionCases == { <<1, 50, 10000, 160>>, <<2, 100, 5000, 400>>, <<0, 50, 2500, 63>>,
                  <<1, 50, 5550, 160>> }

\* Faulty variant of closure_env: the variables are kept on the shared instance,
\* where the call of the first session left them.
closure_env_shared(fr, s) == fr[1].env
\* The variables the closures of the call of session s read: the locals of that call.
closure_env(fr, s) == fr[s].env

\* The frame after the statements before the loop; input and prot_bt are the
\* caller's values, args.prot_bt is the caller's dictionary passed by reference.
frame_call(c, V) ==
    LET prot == prot_bt_of(c[4])
    IN  [ pc |-> "loop", input |-> c, prot_bt |-> prot,
          args |-> [I_mt |-> Num(c[1]), I_bt |-> Num(c[2]), Icc_bt |-> Num(c[3]),
                    prot_bt |-> prot],
          env |-> [ I_rele_51_mt |-> I_rele_51_mt_of(Num(c[1])),
                    I_rele_50_mt |-> I_rele_50_mt_of(Num(c[3]), V),
                    I_int_bt |-> ParseFloat(SplitA0(prot.interruttore_generale)),
                    correnti_test |-> correnti_test(Num(c[2]), Num(c[3])) ],
          idx |-> 1,
          risultati_selettivita |-> <<>>,
          problemi_coordinamento |-> <<>>,
          report |-> NoReport ]

\* Faulty variant of frame_test_point: the margin required at a point is the one
\* recorded for the previous point whenever that one is a number.
frame_test_point_sticky(f, e, V) ==
    LET I_test == f.env.correnti_test[f.idx]
        t_bt == tempo_interruttore_bt(I_test, f.env.I_int_bt, K_mag_default, K_term_default)
        I_test_mt == Mul(I_test, Div(Num(V[2]), Num(V[1])))
        t_mt_51 == tempo_rele_51_mt(I_test_mt, e.I_rele_51_mt)
        t_mt_50 == tempo_rele_50_mt(I_test_mt, e.I_rele_50_mt)
        t_mt == tempo_mt(t_mt_51, t_mt_50)
        prot == protezione_mt_attiva(t_mt, t_mt_51, t_mt_50)
        prev == IF f.risultati_selettivita = <<>> THEN StrVal("N/A")
                ELSE f.risultati_selettivita[Len(f.risultati_selettivita)].margine_richiesto_s
        richiesto == IF IsNum(prev) THEN prev
                     ELSE margine_richiesto(I_test, f.args.I_bt, f.args.Icc_bt)
        cl == classifica(t_bt, t_mt, richiesto)
    IN  IF t_bt = ZeroDivisionError \/ t_mt_51 = ZeroDivisionError
        THEN [f EXCEPT !.pc = "raised"]
        ELSE [f EXCEPT
                !.idx = f.idx + 1,
                !.problemi_coordinamento =
                    IF cl[1] = <<"CROSS", "NO">>
                    THEN Append(f.problemi_coordinamento,
                                problema(I_test, t_bt, t_mt, cl[2], richiesto, prot))
                    ELSE f.problemi_coordinamento,
                !.risultati_selettivita =
                    Append(f.risultati_selettivita,
                           risultato(I_test, I_test_mt, t_bt, t_mt, prot, cl[1], cl[2],
                                     richiesto)) ]

\* The frame after one iteration of the loop; e holds the closures' variables.
frame_test_point(f, e, V) ==
    LET I_test == f.env.correnti_test[f.idx]
        t_bt == tempo_interruttore_bt(I_test, f.env.I_int_bt, K_mag_default, K_term_default)
        I_test_mt == Mul(I_test, Div(Num(V[2]), Num(V[1])))
        t_mt_51 == tempo_rele_51_mt(I_test_mt, e.I_rele_51_mt)
        t_mt_50 == tempo_rele_50_mt(I_test_mt, e.I_rele_50_mt)
        t_mt == tempo_mt(t_mt_51, t_mt_50)
        prot == protezione_mt_attiva(t_mt, t_mt_51, t_mt_50)
        richiesto == margine_richiesto(I_test, f.args.I_bt, f.args.Icc_bt)
        cl == classifica(t_bt, t_mt, richiesto)
    IN  IF t_bt = ZeroDivisionError \/ t_mt_51 = ZeroDivisionError
        THEN [f EXCEPT !.pc = "raised"]
        ELSE [f EXCEPT
                !.idx = f.idx + 1,
                !.problemi_coordinamento =
                    IF cl[1] = <<"CROSS", "NO">>
                    THEN Append(f.problemi_coordinamento,
                                problema(I_test, t_bt, t_mt, cl[2], richiesto, prot))
                    ELSE f.problemi_coordinamento,
                !.risultati_selettivita =
                    Append(f.risultati_selettivita,
                           risultato(I_test, I_test_mt, t_bt, t_mt, prot, cl[1], cl[2],
                                     richiesto)) ]

\* The frame at the return.
frame_return(f, V) ==
    [f EXCEPT !.pc = "done",
              !.report = rapporto_finale(f.args, f.env, V, f.risultati_selettivita,
                                         f.problemi_coordinamento)]

\* A call run from its first statement to its end with nothing else running.
RECURSIVE run_alone(_, _)
run_alone(f, V) ==
    IF f.pc # "loop" THEN f
    ELSE IF f.idx <= Len(f.env.correnti_test)
         THEN run_alone(frame_test_point(f, f.env, V), V)
         ELSE frame_return(f, V)

\* The whole call on a fresh instance: the final frame (report, or raised).
verifica_selettivita_protezioni(c) ==
    run_alone(frame_call(c, <<V_mt, V_bt>>), <<V_mt, V_bt>>)

SCall(s, c) ==
    /\ frames[s].pc = "idle"
    /\ frames' = [frames EXCEPT ![s] = frame_call(c, self_V)]
    /\ UNCHANGED <<pc, args, env, idx, loc, risultati_selettivita,
                   problemi_coordinamento, report, self_V, probe, pair, sizing, ui>>

STestPoint(s) ==
    /\ frames[s].pc = "loop"
    /\ frames[s].idx <= Len(frames[s].env.correnti_test)
    /\ frames' = [frames EXCEPT
                    ![s] = frame_test_point(frames[s], closure_env(frames, s), self_V)]
    /\ UNCHANGED <<pc, args, env, idx, loc, risultati_selettivita,
                   problemi_coordinamento, report, self_V, probe, pair, sizing, ui>>

SReturn(s) ==
    /\ frames[s].pc = "loop"
    /\ frames[s].idx > Len(frames[s].env.correnti_test)
    /\ frames' = [frames EXCEPT ![s] = frame_return(frames[s], self_V)]
    /\ UNCHANGED <<pc, args, env, idx, loc, risultati_selettivita,
                   problemi_coordinamento, report, self_V, probe, pair, sizing, ui>>

\* The session has taken the report (or the exception) of its call.
SFinish(s) ==
    /\ frames[s].pc \in {"done", "raised"}
    /\ frames' = [frames EXCEPT ![s] = NoFrame]
    /\ UNCHANGED <<pc, args, env, idx, loc, risultati_selettivita,
                   problemi_coordinamento, report, self_V, probe, pair, sizing, ui>>

NextSessions ==
    \E s \in Sessions :
        \/ \E c \in SessionCases : SCall(s, c)
        \/ STestPoint(s)
        \/ SReturn(s)
        \/ SFinish(s)

SpecSessions == Init /\ [][NextSessions]_vars

(***************************************************************************)
(* Vocabulary of the properties.                                           *)
(***************************************************************************)
OK == <<"CHECK", "OK">>
LIMITE == <<"WARN", "LIMITE">>
NO == <<"CROSS", "NO">>
PERFETTO == <<"CHECK", "PERFETTO">>
SOLO_MT == <<"WARN", "SOLO MT">>

\* The arguments of the call in progress are all strictly positive.
AllPositive ==
    /\ Gt(args.I_mt, Num(0)) /\ Gt(args.I_bt, Num(0)) /\ Gt(args.Icc_bt, Num(0))
    /\ Gt(env.I_int_bt, Num(0))

\* Per-point results by the finiteness of their two recorded times.
BothFinite(r) == IsNum(r.tempo_bt_s) /\ IsNum(r.tempo_mt_s)
OnlyBt(r) == IsNum(r.tempo_bt_s) /\ r.tempo_mt_s = StrVal("inf")
OnlyMt(r) == r.tempo_bt_s = StrVal("inf") /\ IsNum(r.tempo_mt_s)
Neither(r) == r.tempo_bt_s = StrVal("inf") /\ r.tempo_mt_s = StrVal("inf")

\* The six classifications of the specification, read off a per-point result.
Adequate(r) == BothFinite(r) /\ r.selettivita = OK
Marginal(r) == BothFinite(r) /\ r.selettivita = LIMITE
Inadequate(r) == BothFinite(r) /\ r.selettivita = NO
Ideal(r) == OnlyBt(r) /\ r.selettivita = PERFETTO
RelayOnly(r) == OnlyMt(r) /\ r.selettivita = SOLO_MT
NeitherTrips(r) == Neither(r) /\ r.selettivita = OK

Points == 1 .. Len(risultati_selettivita)
Count(P(_)) == Cardinality({i \in Points : P(risultati_selettivita[i])})

(***************************************************************************)
(* C1: at every test point where both trip times are finite, with          *)
(* margin = t_mt - t_bt and the required margin of the point, the point is *)
(* OK iff margin >= required, LIMITE iff 0.6 * required <= margin <        *)
(* required, and NO otherwise (so for every negative margin).              *)
(***************************************************************************)
C1_MarginClassification ==
    \A i \in Points :
        LET r == risultati_selettivita[i]
        IN  BothFinite(r) =>
                LET margin == Sub(r.tempo_mt_s, r.tempo_bt_s)
                    required == r.margine_richiesto_s
                    sixty == Mul(required, Rat(6, 10))
                IN  /\ r.margine_s = margin
                    /\ (r.selettivita = OK) <=> Geq(margin, required)
                    /\ (r.selettivita = LIMITE) <=> (Geq(margin, sixty) /\ Lt(margin, required))
                    /\ (r.selettivita = NO) <=> Lt(margin, sixty)
                    /\ Lt(margin, Num(0)) => r.selettivita = NO

\* A finished call with positive arguments whose report holds an adequate, a
\* marginal and an inadequate point, the last with a negative margin.
C1_Witness ==
    /\ pc = "done"
    /\ AllPositive
    /\ \E i, j, k \in Points :
           /\ Adequate(risultati_selettivita[i])
           /\ Marginal(risultati_selettivita[j])
           /\ Inadequate(risultati_selettivita[k])
           /\ Lt(risultati_selettivita[k].margine_s, Num(0))

(***************************************************************************)
(* C2: the aggregate rating depends only on p = 100 * n_ok / n_points:     *)
(* p >= 85 ECCELLENTE, 70 <= p < 85 BUONA, 50 <= p < 70 ACCETTABILE,       *)
(* p < 50 CRITICA; with the 7 test points: n_ok >= 6, = 5, = 4, <= 3.      *)
(***************************************************************************)
C2_RatingThresholds ==
    pc = "done" =>
        LET n == report.n_punti_ok
            total == report.n_punti_testati
            v == report.valutazione_complessiva[2]
        IN  /\ total = 7
            /\ total = Len(report.risultati_selettivita)
            /\ report.percentuale_successo = Rat(100 * n, total)
            /\ (v = "SELETTIVITA' ECCELLENTE") <=> (100 * n >= 85 * total)
            /\ (v = "SELETTIVITA' BUONA") <=> (70 * total <= 100 * n /\ 100 * n < 85 * total)
            /\ (v = "SELETTIVITA' ACCETTABILE") <=> (50 * total <= 100 * n /\ 100 * n < 70 * total)
            /\ (v = "SELETTIVITA' CRITICA") <=> (100 * n < 50 * total)
            /\ (v = "SELETTIVITA' ECCELLENTE") <=> (n >= 6)
            /\ (v = "SELETTIVITA' BUONA") <=> (n = 5)
            /\ (v = "SELETTIVITA' ACCETTABILE") <=> (n = 4)
            /\ (v = "SELETTIVITA' CRITICA") <=> (n <= 3)

\* A report with positive arguments and exactly 6 successes of 7 (85.7 %), the
\* smallest percentage rated ECCELLENTE.
C2_Witness ==
    /\ pc = "done"
    /\ AllPositive
    /\ report.n_punti_ok = 6
    /\ report.valutazione_complessiva = <<"CHECK", "SELETTIVITA' ECCELLENTE">>

(***************************************************************************)
(* C3 as stated: the success count n_punti_ok is the number of test points *)
(* classified adequate or ideal; neither-trips points are not counted.     *)
(***************************************************************************)
C3_Original ==
    (pc = "done" /\ AllPositive) =>
        report.n_punti_ok =
            Cardinality({i \in Points : \/ Adequate(risultati_selettivita[i])
                                        \/ Ideal(risultati_selettivita[i])})

(***************************************************************************)
(* C3 as amended: n_punti_ok is the number of test points classified       *)
(* adequate, ideal or neither-trips (the three results that carry the      *)
(* green tick); marginal, inadequate and relay-only points are not counted.*)
(***************************************************************************)
C3_SuccessCount ==
    pc = "done" =>
        /\ report.n_punti_ok =
               Cardinality({i \in Points : \/ Adequate(risultati_selettivita[i])
                                           \/ Ideal(risultati_selettivita[i])
                                           \/ NeitherTrips(risultati_selettivita[i])})
        /\ report.n_punti_ok = Count(Adequate) + Count(Ideal) + Count(NeitherTrips)
        /\ report.risultati_selettivita = risultati_selettivita

\* A report with positive arguments holding a neither-trips point, an ideal
\* point, an adequate point and points of the kinds that are not counted.
C3_Witness ==
    /\ pc = "done"
    /\ AllPositive
    /\ Count(NeitherTrips) > 0
    /\ Count(Ideal) > 0
    /\ Count(Adequate) > 0
    /\ Count(Marginal) + Count(Inadequate) + Count(RelayOnly) > 0

(***************************************************************************)
(* C4 as stated: a call with a non-positive I_mt, I_bt, Icc_bt or breaker  *)
(* rating fails fast and never returns a report computed from them.        *)
(***************************************************************************)
C4_FailFast == pc = "done" => AllPositive

(***************************************************************************)
(* The test point at the maximum test current (the last one).              *)
(***************************************************************************)
LastPoint == risultati_selettivita[Len(risultati_selettivita)]
\* problemi_coordinamento holds the diagnostic of the per-point result r.
HasDiagnostic(r) ==
    \E j \in 1 .. Len(problemi_coordinamento) :
        LET d == problemi_coordinamento[j]
        IN  /\ d.corrente_kA = r.corrente_test_kA
            /\ d.tempo_bt_ms = Mul(r.tempo_bt_s, Num(1000))
            /\ d.tempo_mt_ms = Mul(r.tempo_mt_s, Num(1000))
            /\ d.margine_ms = Mul(r.margine_s, Num(1000))

(***************************************************************************)
(* C5 as stated: for positive inputs the point at I_test = Icc_bt is       *)
(* adequate, ideal, or inadequate with an entry in problemi_coordinamento, *)
(* never neither-trips, marginal or relay-only.                            *)
(***************************************************************************)
C5_Original ==
    (pc = "done" /\ AllPositive) =>
        /\ LastPoint.corrente_test_A = args.Icc_bt
        /\ \/ Adequate(LastPoint)
           \/ Ideal(LastPoint)
           \/ Inadequate(LastPoint) /\ HasDiagnostic(LastPoint)

(***************************************************************************)
(* C5 as amended: for positive inputs the point at I_test = Icc_bt is      *)
(* adequate, ideal, marginal, relay-only, or inadequate with an entry in   *)
(* problemi_coordinamento; it is never classified neither-trips.           *)
(***************************************************************************)
C5_MaxCurrentPoint ==
    (pc = "done" /\ AllPositive) =>
        /\ LastPoint.corrente_test_A = args.Icc_bt
        /\ ~NeitherTrips(LastPoint)
        /\ ~Neither(LastPoint)
        /\ \/ Adequate(LastPoint)
           \/ Ideal(LastPoint)
           \/ Marginal(LastPoint)
           \/ RelayOnly(LastPoint)
           \/ Inadequate(LastPoint) /\ HasDiagnostic(LastPoint)

\* A report with positive arguments whose last point is relay-only and tripped by
\* the 50 stage alone (the 51 stage and the LV breaker do not pick up).
C5_Witness ==
    /\ pc = "done"
    /\ AllPositive
    /\ RelayOnly(LastPoint)
    /\ loc.t_mt_51 = Inf
    /\ loc.t_bt = Inf

(***************************************************************************)
(* The pickups of a curve evaluation, from the setting behind it.          *)
(***************************************************************************)
Pickup51 == Mul(Num(3), probe.param)
Pickup50 == Mul(Mul(Rat(8, 10), probe.param), Rat(V_bt, V_mt))
PickupTerm == Mul(Rat(145, 100), probe.param)
PickupMag == Mul(Num(10), probe.param)
Is51 == probe.fn = "tempo_rele_51_mt"
Is50 == probe.fn = "tempo_rele_50_mt"
IsBt == probe.fn = "tempo_interruttore_bt"

(***************************************************************************)
(* C6 as stated: a current exactly equal to the pickup of a stage (51, 50, *)
(* LV thermal, LV magnetic) does not trip that stage.                      *)
(***************************************************************************)
C6_Original ==
    /\ (Is51 /\ probe.corrente = Pickup51) => probe.t = Inf
    /\ (Is50 /\ probe.corrente = Pickup50) => probe.t = Inf
    /\ (IsBt /\ probe.corrente = PickupTerm) => probe.t = Inf
    /\ (IsBt /\ probe.corrente = PickupMag) => probe.t # Rat(1, 100)

(***************************************************************************)
(* C6 as amended: a current exactly equal to the pickup is below pickup    *)
(* only for the 51 stage (never trips); the 50 stage, the LV thermal       *)
(* threshold and the LV magnetic threshold include equality: there they    *)
(* give 0.3 s, the thermal time 3600 / 1.45^2 s and 0.01 s.                *)
(***************************************************************************)
C6_EqualityAtPickup ==
    /\ (Is51 /\ probe.corrente = Pickup51) => probe.t = Inf
    /\ (Is50 /\ probe.corrente = Pickup50) => probe.t = Rat(3, 10)
    /\ (IsBt /\ probe.corrente = PickupTerm) =>
           /\ IsNum(probe.t)
           /\ Mul(probe.t, Mul(Rat(145, 100), Rat(145, 100))) = Num(3600)
    /\ (IsBt /\ probe.corrente = PickupMag) => probe.t = Rat(1, 100)

\* The 50 stage evaluated exactly at its pickup (1.6 A for Icc_bt = 100 A).
C6_Witness ==
    /\ Is50
    /\ probe.param = Num(100)
    /\ probe.corrente = Rat(16, 10)
    /\ probe.corrente = Pickup50
    /\ probe.t = Ritardo50

C8_EffectiveMvTime ==
    (pc \in {"loop", "done"} /\ Len(risultati_selettivita) > 0) =>
        LET t51 == loc.t_mt_51
            t50 == loc.t_mt_50
            t == loc.t_mt
            fiftyFirst == t50 # Inf /\ t50 = t
        IN  /\ t \in {t51, t50}
            /\ Leq(t, t51) /\ Leq(t, t50)
            /\ LastPoint.tempo_mt_s = (IF t = Inf THEN StrVal("inf") ELSE t)
            /\ (LastPoint.protezione_mt = "50 (istantaneo)") <=> fiftyFirst
            /\ (LastPoint.protezione_mt = "51 (temporizzato)") <=>
                   (t51 # Inf /\ t51 = t /\ ~fiftyFirst)
            /\ (LastPoint.protezione_mt = "Nessuna") <=> (t51 = Inf /\ t50 = Inf)
            /\ LastPoint.protezione_mt \in {"50 (istantaneo)", "51 (temporizzato)", "Nessuna"}

\* A test point at which both stages give exactly 0.3 s: the 50 stage is recorded.
C8_Witness ==
    /\ pc = "loop"
    /\ Len(risultati_selettivita) > 0
    /\ loc.t_mt_51 = Rat(3, 10)
    /\ loc.t_mt_50 = Rat(3, 10)
    /\ LastPoint.protezione_mt = "50 (istantaneo)"

(***************************************************************************)
(* C9: for a current with r = current / pickup > 1 (pickup = 3 * I_mt > 0) *)
(* the 51 stage returns t = 0.8 * 13.5 / (r - 1), a strictly positive      *)
(* time; stated without division: t * (current - pickup) = 10.8 * pickup.  *)
(***************************************************************************)
C9_VeryInverseTime ==
    (Is51 /\ Gt(Pickup51, Num(0)) /\ Gt(probe.corrente, Pickup51)) =>
        /\ IsNum(probe.t)
        /\ Gt(probe.t, Num(0))
        /\ Mul(probe.t, Sub(probe.corrente, Pickup51)) = Mul(Rat(108, 10), Pickup51)

\* The 51 stage evaluated at 3.01 A, just above its pickup of 3 A: 3240 s.
C9_Witness ==
    /\ Is51
    /\ probe.param = Num(1)
    /\ probe.corrente = Rat(301, 100)
    /\ probe.t = Num(3240)

(***************************************************************************)
(* C10 as stated: every finite time returned by the 51 stage lies between  *)
(* a fixed floor and a fixed ceiling (0.05 s and 300 s).                   *)
(***************************************************************************)
C10_Clamped ==
    (Is51 /\ probe.t # Inf) =>
        /\ Geq(probe.t, Rat(5, 100))
        /\ Leq(probe.t, Num(300))

(***************************************************************************)
(* The pickups of a pair of evaluations, from the setting behind it.       *)
(***************************************************************************)
Is51Pair == pair.fn = "tempo_rele_51_mt"
Is50Pair == pair.fn = "tempo_rele_50_mt"
IsBtPair == pair.fn = "tempo_interruttore_bt"
IsMarginePair == pair.fn = "margine_richiesto"
PairPickup51 == Mul(Num(3), pair.param)
PairPickup50 == Mul(Mul(Rat(8, 10), pair.param), Rat(V_bt, V_mt))

C12_BreakerNonIncreasing ==
    (IsBtPair /\ Leq(pair.c1, pair.c2)) =>
        /\ pair.t1 # ZeroDivisionError
        /\ pair.t2 # ZeroDivisionError
        /\ Leq(pair.t2, pair.t1)

\* The breaker of rating 1 A evaluated just below r = 5 (10 s) and at r = 5 (0.5 s).
C12_Witness ==
    /\ IsBtPair
    /\ pair.param = Num(1)
    /\ pair.c1 = Rat(495, 100)
    /\ pair.c2 = Num(5)
    /\ pair.t1 = Num(10)
    /\ pair.t2 = Rat(5, 10)

(***************************************************************************)
(* C13: with r = current / rated (rated > 0), the LV breaker returns       *)
(* 0.01 s for r >= 10; for 1.45 <= r < 10 the thermal value: 0.5 s for     *)
(* r >= 5, 10 s for 2 <= r < 5 and min(3600 / r^2, 3600) s for r < 2; and  *)
(* "never trips" for r < 1.45.                                             *)
(***************************************************************************)
C13_Piecewise ==
    (IsBt /\ Gt(probe.param, Num(0))) =>
        LET r == Div(probe.corrente, probe.param)
            t == probe.t
        IN  /\ Geq(r, Num(10)) => t = Rat(1, 100)
            /\ (Geq(r, Num(5)) /\ Lt(r, Num(10))) => t = Rat(5, 10)
            /\ (Geq(r, Num(2)) /\ Lt(r, Num(5))) => t = Num(10)
            /\ (Geq(r, Rat(145, 100)) /\ Lt(r, Num(2))) =>
                   /\ IsNum(t)
                   /\ t = Min2(Div(Num(3600), Mul(r, r)), Num(3600))
                   /\ Mul(t, Mul(r, r)) = Num(3600)
            /\ Lt(r, Rat(145, 100)) => t = Inf

\* The breaker of rating 2 A evaluated at 3 A (r = 1.5, thermal formula): 1600 s.
C13_Witness ==
    /\ IsBt
    /\ probe.param = Num(2)
    /\ probe.corrente = Num(3)
    /\ probe.t = Num(1600)

(***************************************************************************)
(* C14: the 50 stage is a step function: 0.3 s for every current at or     *)
(* above its pickup, however far above, and "never trips" for every        *)
(* current below it.                                                       *)
(***************************************************************************)
C14_StepFunction ==
    Is50Pair =>
        /\ pair.t1 = (IF Geq(pair.c1, PairPickup50) THEN Rat(3, 10) ELSE Inf)
        /\ pair.t2 = (IF Geq(pair.c2, PairPickup50) THEN Rat(3, 10) ELSE Inf)
        /\ (Geq(pair.c1, PairPickup50) /\ Geq(pair.c2, PairPickup50)) => pair.t1 = pair.t2

\* The 50 stage (pickup 1.6 A) evaluated at its pickup and at 10.5 A: 0.3 s both.
C14_Witness ==
    /\ Is50Pair
    /\ pair.param = Num(100)
    /\ pair.c1 = Rat(16, 10)
    /\ pair.c1 = PairPickup50
    /\ pair.c2 = Rat(105, 10)
    /\ pair.t1 = Rat(3, 10)
    /\ pair.t2 = Rat(3, 10)

(***************************************************************************)
(* C15: at every test point where exactly one device trips, a finite LV    *)
(* time with an infinite MV time is classified PERFETTO (ideal) and an     *)
(* infinite LV time with a finite MV time is classified SOLO MT (relay-    *)
(* only warning); the step that records such a point adds no entry to      *)
(* problemi_coordinamento.                                                 *)
(***************************************************************************)
C15_ExactlyOneTrips ==
    /\ [](\A i \in Points :
            LET r == risultati_selettivita[i]
            IN  /\ OnlyBt(r) => (r.selettivita = PERFETTO /\ r.margine_s = StrVal("inf"))
                /\ OnlyMt(r) => (r.selettivita = SOLO_MT /\ r.margine_s = StrVal("N/A")))
    /\ []((pc \in {"loop", "done"} /\ Len(risultati_selettivita) > 0) =>
            /\ (loc.t_bt # Inf /\ loc.t_mt = Inf) => Ideal(LastPoint)
            /\ (loc.t_bt = Inf /\ loc.t_mt # Inf) => RelayOnly(LastPoint))
    /\ [][ ( /\ Len(risultati_selettivita') = Len(risultati_selettivita) + 1
             /\ (loc'.t_bt = Inf) # (loc'.t_mt = Inf) )
           => problemi_coordinamento' = problemi_coordinamento ]_vars

\* A report with positive arguments that holds a relay-only point next to an
\* inadequate one: problemi_coordinamento has the entry of the inadequate point only.
C15_Witness ==
    /\ pc = "done"
    /\ AllPositive
    /\ Count(RelayOnly) > 0
    /\ Count(Inadequate) > 0
    /\ Len(problemi_coordinamento) = Count(Inadequate)

(***************************************************************************)
(* C16 as stated: a test point where both trip times are infinite gets a   *)
(* classification that differs, in the per-point result, from the          *)
(* classification of an adequate point.                                    *)
(***************************************************************************)
C16_Original ==
    \A i \in Points :
        Neither(risultati_selettivita[i]) => risultati_selettivita[i].selettivita # OK

(***************************************************************************)
(* C16 as amended: a test point where both trip times are infinite falls   *)
(* in the last branch, which records the label "OK" of the adequate        *)
(* classification, stage "Nessuna" and "N/A" for both margins; only the    *)
(* recorded times and margins tell it from an adequate point.  Every       *)
(* combination of finite and infinite times receives exactly one of the    *)
(* six classifications, which carry five labels.                           *)
(***************************************************************************)
C16_NeitherTripsLabel ==
    /\ \A i \in Points :
           LET r == risultati_selettivita[i]
           IN  /\ Neither(r) =>
                      /\ r.selettivita = OK
                      /\ r.protezione_mt = "Nessuna"
                      /\ r.margine_s = StrVal("N/A")
                      /\ r.margine_richiesto_s = StrVal("N/A")
               /\ Adequate(r) => (IsNum(r.margine_s) /\ IsNum(r.margine_richiesto_s))
               /\ Cardinality({k \in 1 .. 6 :
                      \/ k = 1 /\ Adequate(r)
                      \/ k = 2 /\ Marginal(r)
                      \/ k = 3 /\ Inadequate(r)
                      \/ k = 4 /\ Ideal(r)
                      \/ k = 5 /\ RelayOnly(r)
                      \/ k = 6 /\ NeitherTrips(r)}) = 1
               /\ r.selettivita \in {OK, LIMITE, NO, PERFETTO, SOLO_MT}
    /\ (pc \in {"loop", "done"} /\ Len(risultati_selettivita) > 0) =>
           /\ (loc.t_bt = Inf /\ loc.t_mt = Inf) <=> NeitherTrips(LastPoint)
           /\ (loc.t_bt # Inf /\ loc.t_mt # Inf) <=> BothFinite(LastPoint)

\* A report with positive arguments in which a neither-trips point and an adequate
\* point carry the same label.
C16_Witness ==
    /\ pc = "done"
    /\ AllPositive
    /\ \E i, j \in Points :
           /\ NeitherTrips(risultati_selettivita[i])
           /\ Adequate(risultati_selettivita[j])
           /\ risultati_selettivita[i].selettivita = risultati_selettivita[j].selettivita

(***************************************************************************)
(* C17: the required margin of a current depends only on its band: 0.2 s   *)
(* from 0.5 * Icc_bt, else 0.25 s from 10 * I_bt, else 0.3 s; and for      *)
(* I1 <= I2 (positive I_bt and Icc_bt) the margin required at I2 is at     *)
(* most the one required at I1, whichever of 0.5 * Icc_bt and 10 * I_bt is *)
(* the larger.                                                             *)
(***************************************************************************)
C17_MarginBands ==
    IsMarginePair =>
        LET I_bt == pair.param[1]
            Icc_bt == pair.param[2]
            band(c) == IF Geq(c, Mul(Rat(1, 2), Icc_bt)) THEN Rat(2, 10)
                       ELSE IF Geq(c, Mul(Num(10), I_bt)) THEN Rat(25, 100)
                       ELSE Rat(3, 10)
        IN  /\ pair.t1 = band(pair.c1)
            /\ pair.t2 = band(pair.c2)
            /\ Leq(pair.c1, pair.c2) => Leq(pair.t2, pair.t1)

\* I_bt = 0.5 A and Icc_bt = 4 A (10 * I_bt = 5 A lies above 0.5 * Icc_bt = 2 A):
\* 0.3 s is required at 1.95 A and 0.2 s at 5 A.
C17_Witness ==
    /\ IsMarginePair
    /\ pair.param = <<Rat(1, 2), Num(4)>>
    /\ pair.c1 = Rat(195, 100)
    /\ pair.c2 = Num(5)
    /\ pair.t1 = Rat(3, 10)
    /\ pair.t2 = Rat(2, 10)

(***************************************************************************)
(* C18: problemi_coordinamento holds exactly one entry for each test point *)
(* classified NO and none for any other point, in the order of the test    *)
(* points; an entry carries the current (kA), the two times, the margin    *)
(* and the required margin (ms) and the MV stage of its point, and in the  *)
(* report n_problemi is the number of NO points.                           *)
(***************************************************************************)
C18_DiagnosticsExact ==
    LET noIdx == {i \in Points : risultati_selettivita[i].selettivita = NO}
        rank(i) == Cardinality({j \in noIdx : j <= i})
    IN  /\ Len(problemi_coordinamento) = Cardinality(noIdx)
        /\ noIdx = {i \in Points : Inadequate(risultati_selettivita[i])}
        /\ \A i \in noIdx :
               LET d == problemi_coordinamento[rank(i)]
                   r == risultati_selettivita[i]
               IN  /\ d.corrente_kA = r.corrente_test_kA
                   /\ d.tempo_bt_ms = Mul(r.tempo_bt_s, Num(1000))
                   /\ d.tempo_mt_ms = Mul(r.tempo_mt_s, Num(1000))
                   /\ d.margine_ms = Mul(r.margine_s, Num(1000))
                   /\ d.richiesto_ms = Mul(r.margine_richiesto_s, Num(1000))
                   /\ d.protezione_mt = r.protezione_mt
        /\ pc = "done" =>
               /\ report.n_problemi = Cardinality(noIdx)
               /\ report.problemi_coordinamento = problemi_coordinamento
               /\ report.risultati_selettivita = risultati_selettivita

\* A report with positive arguments with two inadequate points that are not
\* adjacent test points, and an adequate point.
C18_Witness ==
    /\ pc = "done"
    /\ AllPositive
    /\ Len(problemi_coordinamento) >= 2
    /\ Count(Adequate) > 0
    /\ \E i, j, k \in Points :
           /\ i < j /\ j < k
           /\ Inadequate(risultati_selettivita[i])
           /\ ~Inadequate(risultati_selettivita[j])
           /\ Inadequate(risultati_selettivita[k])

(***************************************************************************)
(* Vocabulary of the sessions.                                             *)
(***************************************************************************)
Ended(s) == frames[s].pc \in {"done", "raised"}
\* The result the i-th test point of a call with arguments c gets when it is the
\* first point the loop body is run for.
point_alone(c, i) ==
    LET f0 == [frame_call(c, <<V_mt, V_bt>>) EXCEPT !.idx = i]
    IN  frame_test_point(f0, f0.env, <<V_mt, V_bt>>).risultati_selettivita[1]

(***************************************************************************)
(* C19: the call is deterministic: two calls with identical arguments,     *)
(* made in any order and after any number of other calls, end the same way *)
(* with identical reports; and the result of a test point does not depend  *)
(* on the test points before it.                                           *)
(***************************************************************************)
C19_Deterministic ==
    /\ \A s, t \in Sessions :
           (Ended(s) /\ Ended(t) /\ frames[s].input = frames[t].input) =>
               /\ frames[s].pc = frames[t].pc
               /\ frames[s].report = frames[t].report
    /\ \A s \in Sessions :
           \A i \in 1 .. Len(frames[s].risultati_selettivita) :
               frames[s].risultati_selettivita[i] = point_alone(frames[s].input, i)

\* Two sessions hold the reports of calls with the same positive arguments, with
\* an inadequate point in them.
C19_Witness ==
    /\ frames[1].pc = "done"
    /\ frames[2].pc = "done"
    /\ frames[1].input = <<1, 50, 10000, 160>>
    /\ frames[2].input = frames[1].input
    /\ frames[1].report = frames[2].report
    /\ frames[1].report.n_problemi > 0

(***************************************************************************)
(* C20: calls on the shared instance write no shared state: V_mt and V_bt  *)
(* keep their values, the caller's prot_bt is unchanged, and every call,   *)
(* whatever steps of other sessions' calls are interleaved with its own,   *)
(* ends as it does when run alone, with the same report.                   *)
(***************************************************************************)
C20_NoSharedWrites ==
    /\ self_V = <<V_mt, V_bt>>
    /\ \A s \in Sessions :
           frames[s].pc # "idle" =>
               /\ frames[s].prot_bt = prot_bt_of(frames[s].input[4])
               /\ frames[s].args.prot_bt = frames[s].prot_bt
               /\ Ended(s) =>
                      LET alone == verifica_selettivita_protezioni(frames[s].input)
                      IN  /\ frames[s].pc = alone.pc
                          /\ frames[s].report = alone.report

\* The second session has returned its report while the call of the first, made
\* with other arguments, is in the middle of its loop.
C20_Witness ==
    /\ frames[1].pc = "loop"
    /\ frames[1].idx = 4
    /\ frames[1].input = <<1, 50, 10000, 160>>
    /\ frames[2].pc = "done"
    /\ frames[2].input = <<2, 100, 5000, 400>>
    /\ frames[2].report = verifica_selettivita_protezioni(<<2, 100, 5000, 400>>).report

(***************************************************************************)
(* C21: at every test point the two MV stages are evaluated at the MV-side *)
(* current I_test * V_bt / V_mt = I_test / 50 and compared with the MV-    *)
(* side pickups 3 * I_mt and 0.8 * Icc_bt / 50, while the LV breaker curve *)
(* and the required-margin bands are evaluated at the LV-side I_test.      *)
(***************************************************************************)
C21_SideOfEvaluation ==
    (pc \in {"loop", "done"} /\ Len(risultati_selettivita) > 0) =>
        LET I == loc.I_test
            Imt == loc.I_test_mt
            p51 == env.I_rele_51_mt
            p50 == env.I_rele_50_mt
        IN  /\ I = env.correnti_test[Len(risultati_selettivita)]
            /\ Imt = Div(I, Num(50))
            /\ Imt = Mul(I, Rat(V_bt, V_mt))
            /\ LastPoint.corrente_test_A = I
            /\ LastPoint.corrente_mt_A = Imt
            /\ p51 = Mul(Num(3), args.I_mt)
            /\ p50 = Div(Mul(Rat(8, 10), args.Icc_bt), Num(50))
            /\ (loc.t_mt_50 # Inf) <=> Geq(Imt, p50)
            /\ Gt(p51, Num(0)) =>
                   /\ (loc.t_mt_51 # Inf) <=> Gt(Imt, p51)
                   /\ (loc.t_mt_51 # Inf) =>
                          Mul(loc.t_mt_51, Sub(Imt, p51)) = Mul(Rat(108, 10), p51)
            /\ Gt(env.I_int_bt, Num(0)) =>
                   /\ (loc.t_bt # Inf) <=> Geq(I, Mul(Rat(145, 100), env.I_int_bt))
                   /\ (loc.t_bt = Rat(1, 100)) <=> Geq(I, Mul(Num(10), env.I_int_bt))
            /\ loc.margine_richiesto =
                   (IF Geq(I, Mul(Rat(1, 2), args.Icc_bt)) THEN Rat(2, 10)
                    ELSE IF Geq(I, Mul(Num(10), args.I_bt)) THEN Rat(25, 100)
                    ELSE Rat(3, 10))

\* A test point of 100 A with I_mt = 1 A and a 63 A breaker: the current is far
\* above the number 3 of the 51 pickup, but on the MV side it is 2 A, below it, so
\* the relay does not trip while the breaker (r = 1.59) does.
C21_Witness ==
    /\ pc = "loop"
    /\ AllPositive
    /\ args.I_mt = Num(1)
    /\ env.I_int_bt = Num(63)
    /\ loc.I_test = Num(100)
    /\ loc.I_test_mt = Num(2)
    /\ Gt(loc.I_test, env.I_rele_51_mt)
    /\ loc.t_mt = Inf
    /\ IsNum(loc.t_bt)

(***************************************************************************)
(* C22 as stated: the pickup of the 51 stage is 150 % of the nominal MV    *)
(* current, I_rele_51_mt = 1.5 * I_mt, and that value is reported as       *)
(* tarature_mt.rele_51_A.                                                  *)
(***************************************************************************)
C22_Pickup150 ==
    pc = "done" =>
        /\ env.I_rele_51_mt = Mul(Rat(15, 10), args.I_mt)
        /\ report.tarature_mt.rele_51_A = Mul(Rat(15, 10), args.I_mt)

\* The test point of the example at the bolted fault current: a 1000 A breaker
\* at 25000 A (r = 25).
ExamplePoint ==
    /\ pc \in {"loop", "done"}
    /\ Len(risultati_selettivita) > 0
    /\ env.I_int_bt = Num(1000)
    /\ loc.I_test = Num(25000)

(***************************************************************************)
(* C23 as stated: in the example (breaker 1000 A, multipliers 10 and 1.45) *)
(* the test current 25000 A (r = 25) gets its LV trip time from the        *)
(* r >= 20 band of the thermal step table (0.05 s), not from the magnetic  *)
(* branch.                                                                 *)
(***************************************************************************)
C23_Original == ExamplePoint => loc.t_bt = Rat(5, 100)

(***************************************************************************)
(* C23 as amended: in the example the test current 25000 A (r = 25) is at  *)
(* or above the magnetic threshold 10 * 1000 A and gets the magnetic time  *)
(* 0.01 s; with the magnetic multiplier 10 no test point ever gets the     *)
(* 0.02 s, 0.05 s or 0.1 s of the r >= 50, r >= 20 and r >= 10 bands of    *)
(* the thermal table.                                                      *)
(***************************************************************************)
C23_MagneticBranch ==
    /\ ExamplePoint =>
           /\ Geq(loc.I_test, Mul(Num(10), env.I_int_bt))
           /\ loc.t_bt = Rat(1, 100)
           /\ LastPoint.tempo_bt_s = Rat(1, 100)
    /\ (pc \in {"loop", "done"} /\ Len(risultati_selettivita) > 0) =>
           loc.t_bt \notin {Rat(2, 100), Rat(5, 100), Rat(1, 10)}

\* The example's last test point: the breaker trips in 0.01 s, the 50 stage in 0.3 s.
C23_Witness ==
    /\ ExamplePoint
    /\ pc = "done"
    /\ args.I_bt = Num(910)
    /\ loc.t_bt = Rat(1, 100)
    /\ loc.t_mt = Rat(3, 10)

(***************************************************************************)
(* C24 as stated: the relay settings reported in tarature_mt and quoted in *)
(* the recommendations are the values the trip-time functions use: the     *)
(* reported pickups are the pickups of the closures, the reported TMS is   *)
(* the TMS of tempo_rele_51_mt and the reported delay is the delay         *)
(* returned by tempo_rele_50_mt.                                           *)
(***************************************************************************)
C24_ReportedSettings ==
    pc = "done" =>
        /\ report.tarature_mt.rele_51_A = env.I_rele_51_mt
        /\ report.tarature_mt.rele_50_A = env.I_rele_50_mt
        /\ report.tarature_mt.ritardo_50_ms = Mul(Ritardo50, Num(1000))
        /\ loc.t_mt_50 # Inf => Mul(loc.t_mt_50, Num(1000)) = report.tarature_mt.ritardo_50_ms
        /\ report.tarature_mt.TMS_51 = TMS
        /\ (loc.t_mt_51 # Inf) =>
               loc.t_mt_51 = Mul(report.tarature_mt.TMS_51,
                                 Div(K_VI, Sub(Div(loc.I_test_mt, env.I_rele_51_mt), One)))

(***************************************************************************)
(* The sizing steps that run before the evaluator when CALCOLA is pressed: *)
(* calcola_potenza_trasformatore on the sidebar inputs, then               *)
(* calcola_correnti, calcola_cortocircuito_bt and dimensiona_protezioni_bt *)
(* on the rating it returned, and the parse of the breaker rating that     *)
(* verifica_selettivita_protezioni performs on the result.                 *)
(***************************************************************************)
potenze_normalizzate ==
    <<25, 50, 100, 160, 250, 315, 400, 500, 630, 800, 1000, 1250, 1600, 2000, 2500, 3150>>

\* self.ucc: 4 % up to 1000 kVA, 6 % above.
ucc(p) == IF p <= 1000 THEN 4 ELSE 6

taglie_bt == <<160, 250, 400, 630, 800, 1000, 1250, 1600, 2000, 2500, 3200>>

\* The value I_gen_bt holds when no rating of taglie_bt is large enough.
I_gen_bt_default == 630

\* The sidebar inputs: number_input(min_value=10, max_value=5000, step=10) and the
\* three sliders, 0.5 .. 1.0 by 0.05, 0.7 .. 1.0 by 0.05 and 1.0 .. 1.5 by 0.1.
potenza_carichi_min == 10
potenza_carichi_max == 5000
potenza_carichi_step == 10
\* The loads explored: every LoadStride-th step of the number input from its
\* minimum, and its maximum.
potenza_carichi_values ==
    {potenza_carichi_min + potenza_carichi_step * LoadStride * k :
         k \in 0 .. ((potenza_carichi_max - potenza_carichi_min)
                        \div (potenza_carichi_step * LoadStride))}
        \cup {potenza_carichi_max}
f_contemporaneita_values == {Rat(k, 20) : k \in 10 .. 20}
cos_phi_values == {Rat(k, 20) : k \in 14 .. 20}
margine_values == {Rat(k, 10) : k \in 10 .. 15}
tipo_potenza_values == {"Attiva", "Apparente"}

\* The first element of the sequence xs among the positions hits, or dflt when hits
\* is empty: "for x in xs: if ...: return x" followed by the fallback.
FirstOr(xs, hits, dflt) ==
    IF hits = {} THEN dflt
    ELSE xs[CHOOSE i \in hits : \A j \in hits : i <= j]

\* calcola_potenza_trasformatore: <<rating, required power>>.
calcola_potenza_trasformatore(potenza_carichi, f_contemporaneita, cos_phi, margine) ==
    LET potenza_necessaria ==
            Div(Mul(Mul(Num(potenza_carichi), f_contemporaneita), margine), cos_phi)
        hits == {i \in 1 .. Len(potenze_normalizzate) :
                     Geq(Num(potenze_normalizzate[i]), potenza_necessaria)}
    IN  << FirstOr(potenze_normalizzate, hits,
                   potenze_normalizzate[Len(potenze_normalizzate)]),
           potenza_necessaria >>

\* The currents carry the factor 1 / sqrt(3); a current x is held as its square, and
\* comparisons between non-negative currents are made on the squares.
Sq(x) == Mul(x, x)

\* calcola_correnti: the squares of <<I_mt, I_bt>>.
calcola_correnti(potenza_trasf) ==
    << Div(Sq(Rat(potenza_trasf * 1000, V_mt)), Num(3)),
       Div(Sq(Rat(potenza_trasf * 1000, V_bt)), Num(3)) >>

\* calcola_cortocircuito_bt: the square of Icc_bt, with Icc_bt in kA (the factor
\* 1000 of the numerator is left out).
calcola_cortocircuito_bt(potenza_trasf) ==
    Div(Sq(Div(Rat(potenza_trasf, V_bt), Rat(ucc(potenza_trasf), 100))), Num(3))

\* dimensiona_protezioni_bt, on the squares of its arguments (I_bt in A, Icc_bt in
\* kA): the entry "interruttore_generale" of the dictionary it returns, I_gen_bt and
\* pdi.
dimensiona_protezioni_bt(I_bt_sq, Icc_bt_sq) ==
    LET hits == {i \in 1 .. Len(taglie_bt) :
                     Geq(Sq(Num(taglie_bt[i])), Mul(Sq(Rat(11, 10)), I_bt_sq))}
        I_gen_bt == FirstOr(taglie_bt, hits, I_gen_bt_default)
        pdi == IF Lt(Icc_bt_sq, Sq(Num(25))) THEN 25
               ELSE IF Lt(Icc_bt_sq, Sq(Num(35))) THEN 35
               ELSE 50
    IN  [interruttore_generale |-> interruttore_generale(I_gen_bt, pdi),
         I_gen_bt |-> I_gen_bt,
         pdi |-> pdi]

\* CALCOLA, first step: the transformer rating for the sidebar inputs; with
\* "Apparente" the power factor passed is 1.0.
SizeTransformer ==
    /\ sizing = NoSizing
    /\ \E potenza_carichi \in potenza_carichi_values, f \in f_contemporaneita_values,
          cos_phi \in cos_phi_values, margine \in margine_values,
          tipo_potenza \in tipo_potenza_values :
          LET cos_phi_effettivo == IF tipo_potenza = "Apparente" THEN Num(1) ELSE cos_phi
              r == calcola_potenza_trasformatore(potenza_carichi, f, cos_phi_effettivo, margine)
          IN  sizing' = [fn |-> "calcola_potenza_trasformatore",
                         potenza_carichi |-> potenza_carichi,
                         f_contemporaneita |-> f,
                         cos_phi |-> cos_phi_effettivo,
                         margine |-> margine,
                         potenza_trasf |-> r[1],
                         potenza_necessaria |-> r[2]]
    /\ UNCHANGED <<pc, args, env, idx, loc, risultati_selettivita, problemi_coordinamento,
                   report, self_V, probe, pair, frames, ui>>

\* CALCOLA, next steps: currents, fault current and LV breaker for the rating chosen,
\* and the rating the evaluator reads back from the breaker's designation.
SizeBreaker ==
    /\ sizing.fn = "calcola_potenza_trasformatore"
    /\ LET correnti == calcola_correnti(sizing.potenza_trasf)
           Icc_bt_sq == calcola_cortocircuito_bt(sizing.potenza_trasf)
           prot_bt == dimensiona_protezioni_bt(correnti[2], Icc_bt_sq)
       IN  sizing' = [fn |-> "dimensiona_protezioni_bt",
                      potenza_trasf |-> sizing.potenza_trasf,
                      I_mt_sq |-> correnti[1],
                      I_bt_sq |-> correnti[2],
                      Icc_bt_sq |-> Icc_bt_sq,
                      prot_bt |-> prot_bt,
                      I_int_bt |-> ParseFloat(SplitA0(prot_bt.interruttore_generale))]
    /\ UNCHANGED <<pc, args, env, idx, loc, risultati_selettivita, problemi_coordinamento,
                   report, self_V, probe, pair, frames, ui>>

NextSizing ==
    \/ SizeTransformer
    \/ SizeBreaker

SpecSizing == Init /\ [][NextSizing]_vars

(***************************************************************************)
(* The page script and st.session_state of one browser session.  Every     *)
(* event (a click on a button of the page, or any other widget change)     *)
(* runs the script from the top with st.session_state kept; st.rerun()     *)
(* abandons the run and starts another one with no button pressed.         *)
(* ui.session_state is the dictionary (a function on the keys present),    *)
(* ui.buttons the buttons the last run put on the page, ui.page what it    *)
(* showed; ui.event and ui.before record the last event and the            *)
(* dictionary before it.                                                   *)
(***************************************************************************)
\* d[k] = v on a dictionary.
Put(d, k, v) == [x \in DOMAIN d \cup {k} |-> IF x = k THEN v ELSE d[x]]
\* d.get(k, dflt).
Get(d, k, dflt) == IF k \in DOMAIN d THEN d[k] ELSE dflt
\* {} and the truth value of a dictionary.
EmptyDict == <<>>
Truthy(d) == DOMAIN d # {}

\* The loads entered before CALCOLA: the minimum, the default value, a load that
\* selects the 2500 kVA rating and the maximum.
UiLoadCases == {10, 732, 2010, 5000}

\* The dictionary stored by CALCOLA, reduced to the transformer selection and the
\* inputs it came from (the sliders at their default values).
risultati_completi(potenza_carichi, tipo_potenza) ==
    LET cos_phi_effettivo == IF tipo_potenza = "Apparente" THEN Num(1) ELSE Rat(85, 100)
        r == calcola_potenza_trasformatore(potenza_carichi, Rat(75, 100),
                                           cos_phi_effettivo, Num(1))
    IN  [potenza_trasf |-> r[1],
         potenza_necessaria |-> r[2],
         parametri_input |-> [potenza_carichi |-> potenza_carichi,
                              tipo_potenza |-> tipo_potenza]]

\* "if 'calcoli_effettuati' not in st.session_state: ..." and the same for
\* 'risultati_completi'.
session_init(st) ==
    LET a == IF "calcoli_effettuati" \in DOMAIN st THEN st
             ELSE Put(st, "calcoli_effettuati", FALSE)
    IN  IF "risultati_completi" \in DOMAIN a THEN a
        ELSE Put(a, "risultati_completi", EmptyDict)

\* Faulty variant of reset_button_sidebar: AZZERA clears the results at once.
reset_button_sidebar_immediate(st) ==
    Put(Put(Put(st, "calcoli_effettuati", FALSE), "risultati_completi", EmptyDict),
        "show_confirm_reset", TRUE)

\* The body of the AZZERA button.
reset_button_sidebar(st) == Put(st, "show_confirm_reset", TRUE)

\* The body of the SI' button, up to st.rerun().
confirm_yes(st) ==
    Put(Put(Put(st, "calcoli_effettuati", FALSE), "risultati_completi", EmptyDict),
        "show_confirm_reset", FALSE)

\* The body of the NO button, up to st.rerun().
confirm_no(st) == Put(st, "show_confirm_reset", FALSE)

\* "if calcola_button:" with the calculations and the store of the results.
calcola_button_sidebar(st, potenza_carichi, tipo_potenza) ==
    Put(Put(st, "calcoli_effettuati", TRUE),
        "risultati_completi", risultati_completi(potenza_carichi, tipo_potenza))

\* "if st.sidebar.button(AZZERA): ..."
after_reset(st, clicked) ==
    IF clicked = "AZZERA" THEN reset_button_sidebar(st) ELSE st

\* "if st.session_state.get('show_confirm_reset', False):" with the two buttons
\* it shows.
after_confirm(st, clicked) ==
    IF Get(st, "show_confirm_reset", FALSE) /\ clicked = "SI" THEN confirm_yes(st)
    ELSE IF Get(st, "show_confirm_reset", FALSE) /\ clicked = "NO" THEN confirm_no(st)
    ELSE st

\* st.rerun() is reached: SI' or NO pressed while the confirmation is shown.
reruns(st, clicked) ==
    /\ clicked \in {"SI", "NO"}
    /\ Get(after_reset(session_init(st), clicked), "show_confirm_reset", FALSE)

\* "if calcola_button:"
after_calcola(st, clicked, potenza_carichi, tipo_potenza) ==
    IF clicked = "CALCOLA" THEN calcola_button_sidebar(st, potenza_carichi, tipo_potenza)
    ELSE st

\* The statements of one run of the script that write st.session_state, in order,
\* with the button clicked (or "none") reported pressed.
ScriptRun(st, clicked, potenza_carichi, tipo_potenza) ==
    after_calcola(after_confirm(after_reset(session_init(st), clicked), clicked),
                  clicked, potenza_carichi, tipo_potenza)

\* What a run that reaches its end leaves on the page: the two sidebar buttons, the
\* confirmation buttons while show_confirm_reset is set, and the results or the
\* start page.
Page(st, clicked, before) ==
    [session_state |-> st,
     buttons |-> {"CALCOLA", "AZZERA"}
                     \cup (IF Get(st, "show_confirm_reset", FALSE) THEN {"SI", "NO"} ELSE {}),
     page |-> IF st["calcoli_effettuati"] /\ Truthy(st["risultati_completi"])
              THEN "results" ELSE "start",
     event |-> clicked,
     before |-> before]

\* The end of an event: after st.rerun() a second run with no button pressed.
Rendered(st, rerun, clicked, before) ==
    Page(IF rerun THEN ScriptRun(st, "none", potenza_carichi_min, "Attiva") ELSE st,
         clicked, before)

\* An event: the run it triggers and, after st.rerun(), the run that follows.
Script(clicked, potenza_carichi, tipo_potenza) ==
    /\ ui' = Rendered(ScriptRun(ui.session_state, clicked, potenza_carichi, tipo_potenza),
                      reruns(ui.session_state, clicked), clicked, ui.session_state)
    /\ UNCHANGED <<pc, args, env, idx, loc, risultati_selettivita,
                   problemi_coordinamento, report, self_V, probe, pair, frames,
                   sizing>>

\* The page is opened: the first run of the script in the session.
Open ==
    /\ ui.page = "none"
    /\ Script("none", potenza_carichi_min, "Attiva")

\* A widget other than the four buttons changes: a run with no button pressed.
Rerun ==
    /\ ui.page # "none"
    /\ Script("none", potenza_carichi_min, "Attiva")

CALCOLA ==
    /\ "CALCOLA" \in ui.buttons
    /\ \E potenza_carichi \in UiLoadCases, tipo_potenza \in tipo_potenza_values :
           Script("CALCOLA", potenza_carichi, tipo_potenza)

AZZERA ==
    /\ "AZZERA" \in ui.buttons
    /\ Script("AZZERA", potenza_carichi_min, "Attiva")

SI ==
    /\ "SI" \in ui.buttons
    /\ Script("SI", potenza_carichi_min, "Attiva")

NoButton ==
    /\ "NO" \in ui.buttons
    /\ Script("NO", potenza_carichi_min, "Attiva")

NextUI ==
    \/ Open
    \/ Rerun
    \/ CALCOLA
    \/ AZZERA
    \/ SI
    \/ NoButton

SpecUI == Init /\ [][NextUI]_vars

(***************************************************************************)
(* C25: for a positive Icc_bt, at every test point with                    *)
(* I_test >= 0.8 * Icc_bt the 50 stage fires: the MV time is finite and at *)
(* most 0.3 s; the last test point (I_test = Icc_bt) is such a point, so   *)
(* its protezione_mt is not "Nessuna" and it is never PERFETTO nor         *)
(* neither-trips.                                                          *)
(***************************************************************************)
C25_InstantaneousBackup ==
    /\ ( /\ pc \in {"loop", "done"}
         /\ Len(risultati_selettivita) > 0
         /\ Gt(args.Icc_bt, Num(0))
         /\ Geq(loc.I_test, Mul(Rat(8, 10), args.Icc_bt)) ) =>
           /\ loc.t_mt_50 = Rat(3, 10)
           /\ IsNum(loc.t_mt)
           /\ Leq(loc.t_mt, Rat(3, 10))
           /\ IsNum(LastPoint.tempo_mt_s)
           /\ LastPoint.protezione_mt # "Nessuna"
           /\ LastPoint.selettivita # PERFETTO
           /\ ~Ideal(LastPoint)
           /\ ~Neither(LastPoint)
    /\ (pc = "done" /\ Gt(args.Icc_bt, Num(0))) =>
           /\ loc.I_test = args.Icc_bt
           /\ Geq(loc.I_test, Mul(Rat(8, 10), args.Icc_bt))

\* The fourth test point, 15 * I_bt = 2250 A, lies above 0.8 * Icc_bt = 2000 A: the
\* 50 stage is the stage recorded for it.
C25_Witness ==
    /\ pc = "loop"
    /\ idx = 5
    /\ AllPositive
    /\ args.I_bt = Num(150)
    /\ args.Icc_bt = Num(2500)
    /\ loc.I_test = Num(2250)
    /\ loc.t_mt_50 = Rat(3, 10)
    /\ LastPoint.protezione_mt = "50 (istantaneo)"

(***************************************************************************)
(* C26: every report holds exactly one result per test current, in the     *)
(* order 1.2, 2, 5, 15 times I_bt, then 0.3, 0.6, 1 times Icc_bt, so       *)
(* n_punti_testati = len(risultati_selettivita) = 7; the counts partition  *)
(* the points: n_punti_ok + marginal + relay-only + n_problemi = 7; and    *)
(* 0 <= percentuale_successo <= 100.                                       *)
(***************************************************************************)
C26_ReportShape ==
    /\ pc = "loop" => Len(risultati_selettivita) = idx - 1
    /\ pc = "done" =>
           LET rs == report.risultati_selettivita
               mult == << Rat(12, 10), Num(2), Num(5), Num(15),
                          Rat(3, 10), Rat(6, 10), Num(1) >>
               base(i) == IF i <= 4 THEN args.I_bt ELSE args.Icc_bt
           IN  /\ report.n_punti_testati = 7
               /\ Len(rs) = 7
               /\ rs = risultati_selettivita
               /\ \A i \in 1 .. 7 : rs[i].corrente_test_A = Mul(mult[i], base(i))
               /\ report.n_punti_ok + Count(Marginal) + Count(RelayOnly) + report.n_problemi
                      = report.n_punti_testati
               /\ report.n_punti_ok \in 0 .. 7
               /\ report.n_problemi \in 0 .. 7
               /\ Geq(report.percentuale_successo, Num(0))
               /\ Leq(report.percentuale_successo, Num(100))

\* A report with positive arguments in which the test currents are not in
\* increasing order (15 * I_bt exceeds 0.3 * Icc_bt) and relay-only and inadequate
\* points occur next to successes.
C26_Witness ==
    /\ pc = "done"
    /\ AllPositive
    /\ Gt(risultati_selettivita[4].corrente_test_A, risultati_selettivita[5].corrente_test_A)
    /\ report.n_punti_ok > 0
    /\ Count(RelayOnly) > 0
    /\ report.n_problemi > 0

(***************************************************************************)
(* C27 as stated: the verdicts of a report agree: when the recommendations *)
(* open with "Selettivita' conforme CEI 0-16" (no inadequate point),       *)
(* coordinamento_generale is "Conforme CEI 0-16" and the rating is         *)
(* ECCELLENTE or BUONA; and coordinamento_generale is "Conforme CEI 0-16"  *)
(* iff the rating is ECCELLENTE or BUONA.                                  *)
(***************************************************************************)
C27_ConsistentVerdicts ==
    pc = "done" =>
        LET good == report.valutazione_complessiva[2] \in
                        {"SELETTIVITA' ECCELLENTE", "SELETTIVITA' BUONA"}
            conforme == report.coordinamento_generale = "Conforme CEI 0-16"
        IN  /\ conforme <=> good
            /\ (report.raccomandazioni[1] = "Selettivita' conforme CEI 0-16") =>
                   (conforme /\ good)

(***************************************************************************)
(* C28 as stated: for every transformer rating of potenze_normalizzate the *)
(* general LV breaker chosen by dimensiona_protezioni_bt, as read back     *)
(* from its designation, is a rating of taglie_bt not below 1.1 * I_bt,    *)
(* and the smallest such rating.                                           *)
(***************************************************************************)
C28_BreakerCoversCurrent ==
    sizing.fn = "dimensiona_protezioni_bt" =>
        LET need == Mul(Sq(Rat(11, 10)), sizing.I_bt_sq)
            ratings == {taglie_bt[i] : i \in 1 .. Len(taglie_bt)}
        IN  /\ sizing.I_int_bt = Num(sizing.prot_bt.I_gen_bt)
            /\ sizing.prot_bt.I_gen_bt \in ratings
            /\ Geq(Sq(sizing.I_int_bt), need)
            /\ \A t \in ratings : Geq(Sq(Num(t)), need) => sizing.prot_bt.I_gen_bt <= t

(***************************************************************************)
(* C29 as stated: for every input the sidebar allows, the rating returned  *)
(* by calcola_potenza_trasformatore is a rating of potenze_normalizzate    *)
(* not below the required power load * contemporaneity * margin / cos_phi, *)
(* and the smallest such rating.                                           *)
(***************************************************************************)
C29_TransformerCoversLoad ==
    sizing.fn = "calcola_potenza_trasformatore" =>
        LET ratings == {potenze_normalizzate[i] : i \in 1 .. Len(potenze_normalizzate)}
        IN  /\ sizing.potenza_trasf \in ratings
            /\ Geq(Num(sizing.potenza_trasf), sizing.potenza_necessaria)
            /\ \A p \in ratings :
                   Geq(Num(p), sizing.potenza_necessaria) => sizing.potenza_trasf <= p

(***************************************************************************)
(* C30: in a session, after any sequence of events (CALCOLA, AZZERA, SI',  *)
(* NO, runs with no button pressed) the stored results                     *)
(* (calcoli_effettuati, risultati_completi) are cleared only by SI'        *)
(* pressed while the confirmation is shown: AZZERA only sets               *)
(* show_confirm_reset (and shows the confirmation), NO clears              *)
(* show_confirm_reset and keeps the results, a run with no button pressed  *)
(* changes nothing, CALCOLA stores results, and after SI' the state is     *)
(* calcoli_effettuati = False, risultati_completi = {},                    *)
(* show_confirm_reset = False with the start page shown.                   *)
(***************************************************************************)
C30_ResetNeedsConfirmation ==
    LET after == ui.session_state
        before == ui.before
        calcoli(d) == Get(d, "calcoli_effettuati", FALSE)
        risultati(d) == Get(d, "risultati_completi", EmptyDict)
        confirm(d) == Get(d, "show_confirm_reset", FALSE)
        kept == calcoli(after) = calcoli(before) /\ risultati(after) = risultati(before)
        cleared == \/ calcoli(before) /\ ~calcoli(after)
                   \/ Truthy(risultati(before)) /\ ~Truthy(risultati(after))
    IN  ui.page # "none" =>
            /\ DOMAIN after \subseteq
                   {"calcoli_effettuati", "risultati_completi", "show_confirm_reset"}
            /\ {"calcoli_effettuati", "risultati_completi"} \subseteq DOMAIN after
            /\ cleared => ui.event = "SI" /\ confirm(before)
            /\ ui.event = "AZZERA" =>
                   /\ kept
                   /\ after = Put(session_init(before), "show_confirm_reset", TRUE)
                   /\ {"SI", "NO"} \subseteq ui.buttons
            /\ ui.event = "NO" =>
                   /\ confirm(before)
                   /\ kept
                   /\ after = Put(before, "show_confirm_reset", FALSE)
                   /\ ui.buttons = {"CALCOLA", "AZZERA"}
            /\ ui.event = "SI" =>
                   /\ confirm(before)
                   /\ after = [calcoli_effettuati |-> FALSE,
                               risultati_completi |-> EmptyDict,
                               show_confirm_reset |-> FALSE]
                   /\ ui.page = "start"
                   /\ ui.buttons = {"CALCOLA", "AZZERA"}
            /\ ui.event = "none" => after = session_init(before)
            /\ ui.event = "CALCOLA" =>
                   /\ calcoli(after)
                   /\ Truthy(risultati(after))
                   /\ confirm(after) = confirm(before)
                   /\ ui.page = "results"
            /\ (ui.page = "results") <=> (calcoli(after) /\ Truthy(risultati(after)))

\* SI' pressed with results stored: the results are gone and the start page is
\* shown.
C30_Witness ==
    /\ ui.event = "SI"
    /\ ui.before["calcoli_effettuati"] = TRUE
    /\ Truthy(ui.before["risultati_completi"])
    /\ ui.before["show_confirm_reset"] = TRUE
    /\ ui.session_state["calcoli_effettuati"] = FALSE
    /\ ~Truthy(ui.session_state["risultati_completi"])
    /\ ui.page = "start"

====
